---------------------------- MODULE Spec2Model ----------------------------
(***************************************************************************)
(* Asynchronous task lifecycle of the Claude Code MCP bridge.              *)
(*                                                                         *)
(*  Spec        the stdio/SSE server ClaudeCodeServer (TypeScript):        *)
(*              claude_code_async handler, executeClaudeAsync, the         *)
(*              LettaMemoryClient status store, the TaskTracker registry   *)
(*              and the notification router sendResultToLetta.             *)
(*  SpecRouter  one notification call at a time, step by step, for the two *)
(*              routers: sendResultToLetta (letta-callback.ts) and         *)
(*              ClaudeCodeMCPServer.sendAsyncNotification.                 *)
(*  SpecMcp     the HTTP server ClaudeCodeMCPServer (matrix-client.js):    *)
(*              handleClaudeCodeAsync, executeClaudeCodeAsync, the job     *)
(*              tracker and the (monitored) WebSocket execution.           *)
(***************************************************************************)
EXTENDS Integers, Sequences, FiniteSets, TLC

(***************************************************************************)
(* Bounds of the model.                                                    *)
(***************************************************************************)
NumTasks == 2

Tasks == 1..NumTasks

\* notification calls followed through the router in SpecRouter
MaxCalls == 2

\* continuation submissions (sessionId of a paused task) followed in SpecMcp
MaxResumes == 1

\* WebSocket messages followed through one monitored execution in SpecMonitor
MaxMessages == 3

\* blocks in the list cleanupOldTaskBlocks receives in SpecCleanup
MaxBlocks == 3

\* distinct created_at stamps of those blocks (0 stands for no created_at)
MaxStamp == 2

\* prompt lengths classified in SpecClassify: 0 and the multiples of 50 up to
\* 50 * MaxLengthSteps
MaxLengthSteps == 22

\* sendResultToLetta calls followed in SpecBot
NumBotCalls == 3

\* events stored in the InMemoryEventStore of SpecEvents
MaxEvents == 3

\* milliseconds the clock of SpecEvents advances
MaxEventTicks == 1

\* values of the random suffix of an event id in SpecEvents
NumSuffixes == 2

\* session ids randomUUID() generates in SpecHttp
NumHttpIds == 2

\* transports created by POST /mcp requests without a session id in SpecHttp
MaxHttpCreated == 3

\* session ids the SSE transports generate in SpecSse
NumSseIds == 3

\* SESSION_CONFIG.maxSessions (MAX_SESSIONS of the environment) in SpecSse
maxSessions == 2

\* half session timeouts the clock of SpecSse advances
MaxSseTicks == 3

\* SESSION_CONFIG.sessionTimeout, the default of SESSION_TIMEOUT_MS
sessionTimeout == 3600000

\* spawnClaude invocations followed in SpecBackend
NumInvocations == 2

\* messages sent to the client per invocation before its process closes
MaxSends == 3

\* task ids handled by the TaskTracker in SpecTracker
NumTrackerIds == 2

\* the wall clock of SpecTracker advances in steps of half the time-to-live,
\* up to this many steps
MaxTicks == 3

(***************************************************************************)
(* Program constants.                                                      *)
(***************************************************************************)
DefaultKeepTaskBlocks == 3

MinKeepTaskBlocks == 1

\* TaskTracker.taskTTL, in ms
TaskTTL == 3600000

\* toolArgs.maxIterations || 5
DefaultMaxIterations == 5

\* keepTaskBlocks values a caller passes (clamped to 1..50 by the handler)
KeepCounts == {MinKeepTaskBlocks, DefaultKeepTaskBlocks}

\* JavaScript shapes of a tool argument that is expected to be a string
ArgKinds == {"string", "empty", "missing", "nonstring"}

\* interactionMode shapes: absent, '', the three modes, any other value
ModeKinds == {"missing", "empty", "autonomous", "checkpoint", "iterative", "other"}

InteractionModes == {"autonomous", "checkpoint", "iterative"}

\* checkpointPattern shapes: absent, '', a regular expression that compiles,
\* text that new RegExp rejects
PatternKinds == {"missing", "empty", "valid", "invalid"}

\* callbackUrl shapes: plain http(s) URL, a URL whose scheme is sse:, an
\* http(s) URL whose path contains /sse, and text that `new URL` cannot parse
UrlKinds == {"http", "sseScheme", "ssePath", "invalid"}

\* outcome of the primary (Matrix) channel inside one notification call
PrimaryOutcomes == {"sent", "botUnavailable", "noRoom", "lookupThrew", "sendThrew"}

\* the two notification routers
Routers == {"sendResultToLetta", "sendAsyncNotification"}

\* how a WebSocket execution ends
ExecutionEnds == {"claude-complete", "claude-error", "close", "timeout", "wsError"}

TerminalStatus == {"completed", "failed"}

\* maxIterations values a caller passes: 0 stands for an absent (or zero)
\* value, which the handler replaces by the default
MaxIterationsArgs == {0, 1}

VARIABLES
  \* ---- ClaudeCodeServer (Spec) ----
  resp,          \* resp[t]: answer of the submission call: none / taskId / invalidParams
  pc,            \* pc[t]: position of executeClaudeAsync (and of the handler's .catch)
  create,        \* create[t]: position of the un-awaited memoryClient.updateTaskStatus
  taskBlockMap,  \* taskBlockMap[t]: LettaMemoryClient.taskBlockMap has task t
  block,         \* block[t]: the task's memory block in the store: none / live / deleted
  recStatus,     \* recStatus[t]: status field of the stored record
  attached,      \* attached[t]: block attached to the agent (listed by listMemoryBlocks)
  createdAt,     \* createdAt[t]: metadata.created_at sent with the create POST (0: none)
  clock,         \* source of created_at stamps (new Date())
  registry,      \* registry[t]: taskTracker.activeTasks has task t
  elevated,      \* elevated[t]: submitted with elevateBlock = true
  cleanups,      \* cleanups[t]: cleanupOldTaskBlocks calls made by the run of task t
  notifyCalls,   \* notifyCalls[t]: invocations of sendResultToLetta for task t
  \* ---- one notification call (SpecRouter) ----
  nRouter,       \* router running the call
  nUrl,          \* data.callbackUrl of the call
  nPc,           \* idle / primary / fallback / returned / threw
  nOutcome,      \* outcome of the primary channel (none: not tried yet)
  nPrimary,      \* matrixBot.sendJobResult invocations in this call
  nFallback,     \* fallback invocations in this call
  nPosts,        \* HTTP POSTs issued to the callback endpoint in this call
  nFailed,       \* the fallback channel failed in this call
  nCalls,        \* notification calls started so far
  \* ---- ClaudeCodeMCPServer (SpecMcp) ----
  toolArgs,      \* arguments of the claude_code_async request
  asyncResp,     \* answer of handleClaudeCodeAsync: none / started / invalidParams
  jobPc,         \* position of executeClaudeCodeAsync
  activeJobs,    \* number of entries of this.activeJobs
  jobStats,      \* this.jobStats
  wsCreated,     \* WebSockets opened towards the backend
  commandsSent,  \* claude-command messages sent to the backend
  asyncNotified, \* invocations of sendAsyncNotification
  taskIds,       \* task ids generated by handleClaudeCodeAsync
  resumes,       \* accepted submissions that carried the session id of a paused task
  responseBuffer,    \* the running execution has received output (buffer not empty)
  checkpointReached, \* checkpointReached of the running / last execution
  ranAfterMatch, \* output of the process was received after the checkpoint match
  execEnd,       \* how the last execution ended (none: not ended)
  exitCode,      \* exit code carried by claude-complete: none / zero / nonzero
  lastNotice,    \* last notification sent: none / success / checkpoint / failure
  iterationCount,    \* iterationCount of the running / last run of executeClaudeCodeAsync
  canContinue,   \* canContinue carried by the last notification (FALSE: false or absent)
  \* ---- one monitored execution, message by message (SpecMonitor) ----
  monPc,         \* idle / running / resolved / rejected
  monBuffer,     \* responseBuffer, as the sequence of the texts it is made of
  monReceived,   \* the text chunks received so far, in arrival order
  monReached,    \* checkpointReached
  monMessages,   \* messages handled so far
  monResult,     \* result field of the resolved promise
  \* ---- one call of cleanupOldTaskBlocks, detach by detach (SpecCleanup) ----
  cleanupPc,     \* idle / detaching / done / caught
  blocks,        \* answer of listMemoryBlocks: the blocks attached to the agent
  keepCount,     \* keepCount argument of the call
  toRemove,      \* blocksToRemove not yet visited by the loop (indices into blocks)
  attempted,     \* blocks for which detachBlockFromAgent was called
  detached,      \* blocks whose detach request succeeded
  \* ---- TaskTracker (SpecTracker) ----
  activeTasks,   \* TaskTracker.activeTasks: task id -> createdAt (ms)
  now,           \* the wall clock (ms)
  inFlight,      \* ids of the tasks whose background run has not ended
  trackerOp,     \* the TaskTracker operation of the last step: <<name, task id>>
  \* ---- LettaMemoryClient.classifyTask (SpecClassify) ----
  classifyInput, \* the prompt of the last call: its length and what it contains
  classification, \* the value the last call returned
  \* ---- the shared Matrix bot of letta-callback.ts (SpecBot) ----
  matrixBot,     \* the module variable matrixBot is set (not null)
  isInitialized, \* MatrixBotService.isInitialized
  mappingClient, \* the module variable mappingClient is set
  botPc,         \* botPc[c]: position of sendResultToLetta call c
  sentUninitialized, \* sendJobResult was invoked while isInitialized was false
  \* ---- the backend's spawnClaude / abortClaudeSession (SpecBackend) ----
  procState,     \* procState[i]: process of invocation i: none / running / killed / closed
  suppliedId,    \* suppliedId[i]: the caller passed a sessionId (a resumed session)
  captured,      \* captured[i]: capturedSessionId was taken from the output
  sessionCreatedSent,  \* sessionCreatedSent[i]
  wsSent,        \* wsSent[i]: the messages sent to the client, in order
  activeClaudeProcesses,  \* session key -> invocation whose process is stored (0: no entry)
  statusTracker, \* claudeStatusTracker: status of each job id and the stats counters
  \* ---- the SSE server's sessions (SpecSse) ----
  activeSessions,  \* activeSessions[s]: unused (id not generated yet) / active / removed
  lastActivity,    \* lastActivity[s] of an active session, in ms
  acceptedAt,      \* time at which POST /messages last accepted a message of s (-1: never)
  sseNow,          \* the clock read by new Date()
  sseReply,        \* the last request: <<operation, session, HTTP status>>
  \* ---- the streamable-HTTP server's transports (SpecHttp) ----
  transports,    \* transports[s]: unused (id not generated yet) / registered / deleted
  httpCreated,   \* number of transport and server pairs created so far
  httpReply,     \* the last request: <<method, mcp-session-id, HTTP status>>
  \* ---- InMemoryEventStore (SpecEvents) ----
  events,        \* the keys of the events Map, <<streamId, Date.now(), random suffix>>, as inserted
  eventsNow,     \* Date.now()
  replay         \* the last replayEventsAfter: its lastEventId, what it sent, what it returned

varsA == <<resp, pc, create, taskBlockMap, block, recStatus, attached, createdAt,
           clock, registry, elevated, cleanups, notifyCalls>>

\* the store fields of the ClaudeCodeServer model
storeA == <<taskBlockMap, block, recStatus, attached>>

stampsA == <<createdAt, clock>>

varsN == <<nRouter, nUrl, nPc, nOutcome, nPrimary, nFallback, nPosts, nFailed, nCalls>>

\* locals of one run of executeClaudeCodeAsync and of its execution promise
runB == <<responseBuffer, checkpointReached, ranAfterMatch, execEnd, exitCode>>

\* iteration bookkeeping of executeClaudeCodeAsync and of its notification
iterB == <<iterationCount, canContinue>>

varsB == <<toolArgs, asyncResp, jobPc, activeJobs, jobStats, wsCreated,
           commandsSent, asyncNotified, taskIds, resumes, runB, lastNotice, iterB>>

varsM == <<monPc, monBuffer, monReceived, monReached, monMessages, monResult>>

varsC == <<cleanupPc, blocks, keepCount, toRemove, attempted, detached>>

varsT == <<activeTasks, now, inFlight, trackerOp>>

varsK == <<classifyInput, classification>>

varsP == <<matrixBot, isInitialized, mappingClient, botPc, sentUninitialized>>

\* the variables of the specifications further down
varsJ == <<procState, suppliedId, captured, sessionCreatedSent, wsSent,
           activeClaudeProcesses, statusTracker>>

varsS == <<activeSessions, lastActivity, acceptedAt, sseNow, sseReply>>

varsH == <<transports, httpCreated, httpReply>>

varsE == <<events, eventsNow, replay>>

varsX == <<varsP, varsJ, varsS, varsH, varsE>>

varsNotA == <<varsN, varsB, varsM, varsC, varsT, varsK, varsX>>

\* the variables of Spec ... SpecClassify
varsOld == <<varsA, varsN, varsB, varsM, varsC, varsT, varsK>>

vars == <<varsOld, varsX>>

(***************************************************************************)
(* Notification router of letta-callback.ts, as a function of the outcomes *)
(* of its network calls.                                                   *)
(***************************************************************************)
IsSse(url) == url \in {"sseScheme", "ssePath"}

\* sendDirectLettaCallback: number of POSTs it issues to the callback endpoint
DirectCallbackPosts(url) ==
  IF url = "invalid" THEN 0          \* new URL(...) throws before any request
  ELSE IF IsSse(url) THEN 0          \* SSE branch only logs a TODO
  ELSE 1

\* sendDirectLettaCallback: does it throw (its catch block rethrows)
DirectCallbackThrows(url, postOk) ==
  IF url = "invalid" THEN TRUE
  ELSE IF IsSse(url) THEN FALSE
  ELSE ~postOk

\* sendResultToLetta: [fallback |-> sendDirectLettaCallback was called,
\*                     posts |-> POSTs issued, failed |-> the fallback failed,
\*                     threw |-> the call rejected]
SendResultToLetta(primary, url, postOk) ==
  LET matrixSuccess == (primary = "sent") IN
  IF matrixSuccess
  THEN [fallback |-> FALSE, posts |-> 0, failed |-> FALSE, threw |-> FALSE]
  ELSE [fallback |-> TRUE, posts |-> DirectCallbackPosts(url),
        failed |-> DirectCallbackThrows(url, postOk),
        threw |-> DirectCallbackThrows(url, postOk)]

(***************************************************************************)
(* Notification router of ClaudeCodeMCPServer.                             *)
(***************************************************************************)
\* fetch(`${callbackUrl}/v1/agents/${agentId}/messages`) issues a request
\* only for an http(s) URL; otherwise it rejects without sending
FetchIssuesRequest(url) == url \in {"http", "ssePath"}

\* sendAsyncNotification: same fields as SendResultToLetta.  The fallback
\* fetch sits in its own try/catch and a non-ok answer is only logged.
SendAsyncNotification(primary, url, postOk) ==
  LET notificationSent == (primary = "sent") IN
  IF notificationSent
  THEN [fallback |-> FALSE, posts |-> 0, failed |-> FALSE, threw |-> FALSE]
  ELSE [fallback |-> TRUE, posts |-> IF FetchIssuesRequest(url) THEN 1 ELSE 0,
        failed |-> ~(FetchIssuesRequest(url) /\ postOk),
        threw |-> FALSE]

\* the result of one notification call of router r
RouterResult(r, primary, url, postOk) ==
  IF r = "sendResultToLetta" THEN SendResultToLetta(primary, url, postOk)
  ELSE SendAsyncNotification(primary, url, postOk)

(***************************************************************************)
(* LettaMemoryClient (status store client).                                *)
(***************************************************************************)
\* a store client whose operations rethrow what they catch (not the program's)
StoreCallRethrows(anyFailed) == anyFailed

\* Every public store operation (updateTaskProgress, addTaskError,
\* completeTask, cleanupOldTaskBlocks, and the private archive and delete
\* helpers) wraps its body in try/catch and does not rethrow: a failed store
\* call never rejects towards the engine.
StoreCallThrows(anyFailed) == FALSE

\* updateTaskProgress(agentId, taskId, updates): the status field of the
\* record after the call.  Without a taskBlockMap entry it returns at once;
\* with one it merges the progress fields (progress, progress_percentage,
\* current_step, ...) into the record, none of which is the status field.
UpdateTaskProgress(hasBlock, status) ==
  IF ~hasBlock THEN status ELSE status

\* a completeTask without the "No block found" return (not the program's)
CompleteTaskUnguarded(t, success, getOk, patchOk, archOk, delOk) ==
  LET st == IF success THEN "completed" ELSE "failed" IN
  IF ~getOk \/ ~patchOk
  THEN [map |-> taskBlockMap[t], blk |-> block[t], st |-> recStatus[t], att |-> attached[t]]
  ELSE IF delOk
  THEN [map |-> FALSE, blk |-> "deleted", st |-> st, att |-> FALSE]
  ELSE [map |-> TRUE, blk |-> "live", st |-> st, att |-> attached[t]]

\* completeTask(agentId, taskId, result, success): the new values of the
\* store fields of task t, given the outcomes of its network calls (read of
\* the block, PATCH of the final status, archival passage, DELETE).
CompleteTask(t, success, getOk, patchOk, archOk, delOk) ==
  LET same == [map |-> taskBlockMap[t], blk |-> block[t], st |-> recStatus[t],
               att |-> attached[t]] IN
  IF ~taskBlockMap[t] THEN same                 \* "No block found ... cannot complete"
  ELSE IF ~getOk \/ ~patchOk THEN same          \* thrown, caught and logged
  ELSE LET st == IF success THEN "completed" ELSE "failed" IN
       \* archiveTaskToLongTermMemory swallows its failure; deleteTaskMemoryBlock
       \* drops the taskBlockMap entry only after a successful DELETE
       IF delOk
       THEN [map |-> FALSE, blk |-> "deleted", st |-> st, att |-> FALSE]
       ELSE [map |-> TRUE, blk |-> "live", st |-> st, att |-> attached[t]]

\* the task blocks cleanupOldTaskBlocks considers: label claude_task_*, and
\* metadata.elevated not set (updateTaskStatus never writes metadata.elevated)
CleanupCandidates == {u \in Tasks : block[u] = "live" /\ attached[u]}

\* position of u among the candidates sorted newest first (0 = newest)
NewerThan(u) == Cardinality({w \in CleanupCandidates : createdAt[w] > createdAt[u]})

\* blocks beyond the keepCount newest: taskBlocks.slice(keepCount)
BlocksToRemove(keep) == {u \in CleanupCandidates : NewerThan(u) >= keep}

(***************************************************************************)
(* Initial state: servers constructed, no request received.                *)
(***************************************************************************)
InitA ==
  /\ resp = [t \in Tasks |-> "none"]
  /\ pc = [t \in Tasks |-> "idle"]
  /\ create = [t \in Tasks |-> "idle"]
  /\ taskBlockMap = [t \in Tasks |-> FALSE]
  /\ block = [t \in Tasks |-> "none"]
  /\ recStatus = [t \in Tasks |-> "none"]
  /\ attached = [t \in Tasks |-> FALSE]
  /\ createdAt = [t \in Tasks |-> 0]
  /\ clock = 0
  /\ registry = [t \in Tasks |-> FALSE]
  /\ elevated = [t \in Tasks |-> FALSE]
  /\ cleanups = [t \in Tasks |-> 0]
  /\ notifyCalls = [t \in Tasks |-> 0]

InitN ==
  /\ nRouter = "none"
  /\ nUrl = "none"
  /\ nPc = "idle"
  /\ nOutcome = "none"
  /\ nPrimary = 0
  /\ nFallback = 0
  /\ nPosts = 0
  /\ nFailed = FALSE
  /\ nCalls = 0

NoArgs == [prompt |-> "unset", agentId |-> "unset", interactionMode |-> "unset",
           checkpointPattern |-> "unset", workFolder |-> FALSE, sessionId |-> FALSE,
           maxIterations |-> 0]

NoJobStats == [totalStarted |-> 0, totalCompleted |-> 0, totalFailed |-> 0,
               totalCheckpoints |-> 0]

InitB ==
  /\ toolArgs = NoArgs
  /\ asyncResp = "none"
  /\ jobPc = "idle"
  /\ activeJobs = 0
  /\ jobStats = NoJobStats
  /\ wsCreated = 0
  /\ commandsSent = 0
  /\ asyncNotified = 0
  /\ taskIds = 0
  /\ resumes = 0
  /\ responseBuffer = FALSE
  /\ checkpointReached = FALSE
  /\ ranAfterMatch = FALSE
  /\ execEnd = "none"
  /\ exitCode = "none"
  /\ lastNotice = "none"
  /\ iterationCount = 0
  /\ canContinue = FALSE

InitM ==
  /\ monPc = "idle"
  /\ monBuffer = <<>>
  /\ monReceived = <<>>
  /\ monReached = FALSE
  /\ monMessages = 0
  /\ monResult = <<>>

InitC ==
  /\ cleanupPc = "idle"
  /\ blocks = <<>>
  /\ keepCount = 0
  /\ toRemove = <<>>
  /\ attempted = {}
  /\ detached = {}

InitT ==
  /\ activeTasks = <<>>
  /\ now = 0
  /\ inFlight = {}
  /\ trackerOp = <<"none", 0>>

\* no call yet: the empty prompt as input, no classification returned
InitK ==
  /\ classifyInput = [length |-> 0, fileWords |-> FALSE, codeWords |-> FALSE,
                      analysisWords |-> FALSE, searchWords |-> FALSE,
                      gitWords |-> FALSE, terminalWords |-> FALSE,
                      stepIndicator |-> FALSE]
  /\ classification = [task_type |-> "none", complexity_score |-> 0,
                       should_archive |-> FALSE, archive_priority |-> "none"]

InitP ==
  /\ matrixBot = FALSE
  /\ isInitialized = FALSE
  /\ mappingClient = FALSE
  /\ botPc = [c \in 1..NumBotCalls |-> "idle"]
  /\ sentUninitialized = FALSE

\* the keys of activeClaudeProcesses (and, prefixed with claude-, the job
\* ids): the session id callers resume, Date.now().toString() of invocation
\* i, the session id the CLI reports to invocation i
SessionKeys ==
  {<<"session", 0>>} \cup {<<kind, i>> : kind \in {"time", "captured"}, i \in 1..NumInvocations}

InitJ ==
  /\ procState = [i \in 1..NumInvocations |-> "none"]
  /\ suppliedId = [i \in 1..NumInvocations |-> FALSE]
  /\ captured = [i \in 1..NumInvocations |-> FALSE]
  /\ sessionCreatedSent = [i \in 1..NumInvocations |-> FALSE]
  /\ wsSent = [i \in 1..NumInvocations |-> <<>>]
  /\ activeClaudeProcesses = [k \in SessionKeys |-> 0]
  /\ statusTracker = [jobs |-> [k \in SessionKeys |-> "none"], totalJobsStarted |-> 0,
                      totalJobsCompleted |-> 0, totalJobsFailed |-> 0,
                      totalJobsAborted |-> 0]

InitS ==
  /\ activeSessions = [s \in 1..NumSseIds |-> "unused"]
  /\ lastActivity = [s \in 1..NumSseIds |-> 0]
  /\ acceptedAt = [s \in 1..NumSseIds |-> -1]
  /\ sseNow = 0
  /\ sseReply = <<"none", 0, 0>>

InitH ==
  /\ transports = [s \in 1..NumHttpIds |-> "unused"]
  /\ httpCreated = 0
  /\ httpReply = <<"none", -1, 0>>

InitE ==
  /\ events = <<>>
  /\ eventsNow = 0
  /\ replay = [lastEventId |-> <<"none", 0, 0>>, sent |-> <<>>, returned |-> ""]

Init == InitA /\ InitN /\ InitB /\ InitM /\ InitC /\ InitT /\ InitK /\ InitP /\ InitJ /\ InitS /\ InitH /\ InitE

(***************************************************************************)
(* ClaudeCodeServer: CallToolRequest handler for claude_code_async.        *)
(***************************************************************************)
\* parameter validation of the handler
ValidPrompt(prompt) == prompt \in {"string", "empty"}     \* typeof === 'string'

ValidAgentId(agentId) == agentId = "string"               \* truthy and a string

\* a handler that awaits memoryClient.updateTaskStatus before it answers (not
\* the program's)
AcceptSubmissionAwaited(t, elev) ==
  /\ registry' = [registry EXCEPT ![t] = TRUE]
  /\ elevated' = [elevated EXCEPT ![t] = elev]
  /\ create' = [create EXCEPT ![t] = "done"]
  /\ block' = [block EXCEPT ![t] = "live"]
  /\ recStatus' = [recStatus EXCEPT ![t] = "pending"]
  /\ taskBlockMap' = [taskBlockMap EXCEPT ![t] = TRUE]
  /\ attached' = [attached EXCEPT ![t] = TRUE]
  /\ clock' = clock + 1
  /\ createdAt' = [createdAt EXCEPT ![t] = clock + 1]
  /\ pc' = [pc EXCEPT ![t] = "spawn"]
  /\ resp' = [resp EXCEPT ![t] = "taskId"]
  /\ UNCHANGED <<cleanups, notifyCalls>>

\* The accepted submission, up to the handler's return.  The handler runs
\* synchronously: createTask; updateTaskStatus is called and left pending at
\* its POST; executeClaudeAsync is called and runs up to its first await,
\* where updateTaskProgress finds no entry in taskBlockMap (the POST cannot
\* have answered yet) and returns; then the task id is returned.
AcceptSubmission(t, elev) ==
  /\ registry' = [registry EXCEPT ![t] = TRUE]
  /\ elevated' = [elevated EXCEPT ![t] = elev]
  /\ create' = [create EXCEPT ![t] = "posting"]
  /\ clock' = clock + 1
  /\ createdAt' = [createdAt EXCEPT ![t] = clock + 1]
  /\ recStatus' = [recStatus EXCEPT ![t] = UpdateTaskProgress(taskBlockMap[t], @)]
  /\ pc' = [pc EXCEPT ![t] = "spawn"]
  /\ resp' = [resp EXCEPT ![t] = "taskId"]
  /\ UNCHANGED <<taskBlockMap, block, attached, cleanups, notifyCalls>>

Submit(t) ==
  /\ resp[t] = "none"
  /\ \A u \in Tasks : u < t => resp[u] # "none"    \* requests are numbered in arrival order
  /\ \E prompt \in ArgKinds, agentId \in ArgKinds, elev \in BOOLEAN :
       IF ValidPrompt(prompt) /\ ValidAgentId(agentId)
       THEN AcceptSubmission(t, elev)
       ELSE /\ resp' = [resp EXCEPT ![t] = "invalidParams"]
            /\ UNCHANGED <<pc, create, storeA, stampsA, registry, elevated, cleanups, notifyCalls>>
  /\ UNCHANGED varsNotA

(***************************************************************************)
(* LettaMemoryClient.updateTaskStatus, running un-awaited.                 *)
(***************************************************************************)
\* answer to POST /v1/blocks/ (createMemoryBlock)
CreateBlockResponse(t) ==
  /\ create[t] = "posting"
  /\ \E ok \in BOOLEAN :
       IF ok
       THEN /\ block' = [block EXCEPT ![t] = "live"]
            /\ recStatus' = [recStatus EXCEPT ![t] = "pending"]
            /\ taskBlockMap' = [taskBlockMap EXCEPT ![t] = TRUE]
            /\ create' = [create EXCEPT ![t] = "attaching"]
       ELSE /\ create' = [create EXCEPT ![t] = "failed"]
            /\ UNCHANGED <<block, recStatus, taskBlockMap>>
  /\ UNCHANGED <<resp, pc, attached, stampsA, registry, elevated, cleanups, notifyCalls, varsNotA>>

\* answer to PATCH .../core-memory/blocks/attach/{id} (attachBlockToAgent)
AttachResponse(t) ==
  /\ create[t] = "attaching"
  /\ \E ok \in BOOLEAN :
       attached' = [attached EXCEPT ![t] = ok /\ block[t] = "live"]
  /\ create' = [create EXCEPT ![t] = "done"]
  /\ UNCHANGED <<resp, pc, taskBlockMap, block, recStatus, createdAt, clock,
                 registry, elevated, cleanups, notifyCalls, varsNotA>>

(***************************************************************************)
(* ClaudeCodeServer.executeClaudeAsync.                                    *)
(***************************************************************************)
\* spawnAsync is called
Spawn(t) ==
  /\ pc[t] = "spawn"
  /\ pc' = [pc EXCEPT ![t] = "running"]
  /\ UNCHANGED <<resp, create, storeA, stampsA, registry, elevated, cleanups, notifyCalls, varsNotA>>

\* the process closes with code 0 (resolve) or fails (spawn error, non-zero
\* code, killed by the timeout: reject)
ProcessExit(t) ==
  /\ pc[t] = "running"
  /\ \E ok \in BOOLEAN : pc' = [pc EXCEPT ![t] = IF ok THEN "complete" ELSE "catch"]
  /\ UNCHANGED <<resp, create, storeA, stampsA, registry, elevated, cleanups, notifyCalls, varsNotA>>

\* the store fields of task t after a completeTask call with result r
ApplyCompleteTask(t, r) ==
  /\ taskBlockMap' = [taskBlockMap EXCEPT ![t] = r.map]
  /\ block' = [block EXCEPT ![t] = r.blk]
  /\ recStatus' = [recStatus EXCEPT ![t] = r.st]
  /\ attached' = [attached EXCEPT ![t] = r.att]

\* await memoryClient.completeTask(agentId, taskId, result, true, metrics)
CompleteSuccess(t) ==
  /\ pc[t] = "complete"
  /\ \E getOk \in BOOLEAN, patchOk \in BOOLEAN, archOk \in BOOLEAN, delOk \in BOOLEAN :
       /\ ApplyCompleteTask(t, CompleteTask(t, TRUE, getOk, patchOk, archOk, delOk))
       /\ pc' = [pc EXCEPT ![t] =
                   IF StoreCallThrows(taskBlockMap[t] /\ ~(getOk /\ patchOk /\ archOk /\ delOk))
                   THEN "catch"
                   ELSE IF elevated[t] THEN "notify" ELSE "cleanup"]
  /\ UNCHANGED <<resp, create, createdAt, clock, registry, elevated, cleanups, notifyCalls, varsNotA>>

\* if (!elevateBlock) await memoryClient.cleanupOldTaskBlocks(agentId, keepTaskBlocks)
\* The blocks to remove are detached newest first; the first detach that
\* fails throws out of the loop into the function's own catch.
Cleanup(t) ==
  /\ pc[t] = "cleanup"
  /\ \E keep \in KeepCounts, listOk \in BOOLEAN, done \in SUBSET Tasks :
       /\ done \subseteq BlocksToRemove(keep)
       /\ ~listOk => done = {}
       /\ \A u \in done, w \in BlocksToRemove(keep) \ done : createdAt[u] > createdAt[w]
       /\ attached' = [u \in Tasks |-> attached[u] /\ u \notin done]
       /\ pc' = [pc EXCEPT ![t] =
                   IF StoreCallThrows(~listOk \/ done # BlocksToRemove(keep))
                   THEN "catch" ELSE "notify"]
  /\ cleanups' = [cleanups EXCEPT ![t] = @ + 1]
  /\ UNCHANGED <<resp, create, taskBlockMap, block, recStatus, createdAt, clock,
                 registry, elevated, notifyCalls, varsNotA>>

\* await sendResultToLetta({... success: true}); taskTracker.removeTask(taskId)
Notify(t) ==
  /\ pc[t] = "notify"
  /\ notifyCalls' = [notifyCalls EXCEPT ![t] = @ + 1]
  /\ \E primary \in PrimaryOutcomes, url \in UrlKinds, postOk \in BOOLEAN :
       IF SendResultToLetta(primary, url, postOk).threw
       THEN /\ pc' = [pc EXCEPT ![t] = "catch"]
            /\ UNCHANGED registry
       ELSE /\ pc' = [pc EXCEPT ![t] = "done"]
            /\ registry' = [registry EXCEPT ![t] = FALSE]
  /\ UNCHANGED <<resp, create, storeA, stampsA, elevated, cleanups, varsNotA>>

\* catch (error): await memoryClient.addTaskError(agentId, taskId, taskError)
CatchAddError(t) ==
  /\ pc[t] = "catch"
  /\ \E getOk \in BOOLEAN, patchOk \in BOOLEAN :
       pc' = [pc EXCEPT ![t] =
                IF StoreCallThrows(taskBlockMap[t] /\ ~(getOk /\ patchOk))
                THEN "outer" ELSE "failTask"]
  /\ UNCHANGED <<resp, create, storeA, stampsA, registry, elevated, cleanups, notifyCalls, varsNotA>>

\* await memoryClient.completeTask(agentId, taskId, error.message, false)
FailTask(t) ==
  /\ pc[t] = "failTask"
  /\ \E getOk \in BOOLEAN, patchOk \in BOOLEAN, archOk \in BOOLEAN, delOk \in BOOLEAN :
       /\ ApplyCompleteTask(t, CompleteTask(t, FALSE, getOk, patchOk, archOk, delOk))
       /\ pc' = [pc EXCEPT ![t] =
                   IF StoreCallThrows(taskBlockMap[t] /\ ~(getOk /\ patchOk /\ archOk /\ delOk))
                   THEN "outer" ELSE "notifyErr"]
  /\ UNCHANGED <<resp, create, createdAt, clock, registry, elevated, cleanups, notifyCalls, varsNotA>>

\* await sendResultToLetta({... success: false}); taskTracker.removeTask(taskId);
\* throw error.  A rejected notification leaves the catch block at once.
NotifyError(t) ==
  /\ pc[t] = "notifyErr"
  /\ notifyCalls' = [notifyCalls EXCEPT ![t] = @ + 1]
  /\ \E primary \in PrimaryOutcomes, url \in UrlKinds, postOk \in BOOLEAN :
       registry' = [registry EXCEPT ![t] =
                      IF SendResultToLetta(primary, url, postOk).threw THEN @ ELSE FALSE]
  /\ pc' = [pc EXCEPT ![t] = "outer"]
  /\ UNCHANGED <<resp, create, storeA, stampsA, elevated, cleanups, varsNotA>>

\* the handler's executeClaudeAsync(...).catch(error => { sendResultToLetta(
\* {... success: false}).catch(console.error) })
HandlerCatch(t) ==
  /\ pc[t] = "outer"
  /\ notifyCalls' = [notifyCalls EXCEPT ![t] = @ + 1]
  /\ pc' = [pc EXCEPT ![t] = "done"]
  /\ UNCHANGED <<resp, create, storeA, stampsA, registry, elevated, cleanups, varsNotA>>

NextA ==
  \E t \in Tasks :
    \/ Submit(t)
    \/ CreateBlockResponse(t)
    \/ AttachResponse(t)
    \/ Spawn(t)
    \/ ProcessExit(t)
    \/ CompleteSuccess(t)
    \/ Cleanup(t)
    \/ Notify(t)
    \/ CatchAddError(t)
    \/ FailTask(t)
    \/ NotifyError(t)
    \/ HandlerCatch(t)

Spec == Init /\ [][NextA]_vars

(***************************************************************************)
(* SpecRouter: one notification call, step by step.                        *)
(***************************************************************************)
\* sendResultToLetta(data) / sendAsyncNotification(data) is called
StartNotification ==
  /\ nPc \in {"idle", "returned", "threw"}
  /\ nCalls < MaxCalls
  /\ \E r \in Routers, url \in UrlKinds :
       /\ nRouter' = r
       /\ nUrl' = url
  /\ nPc' = "primary"
  /\ nOutcome' = "none"
  /\ nPrimary' = 0
  /\ nFallback' = 0
  /\ nPosts' = 0
  /\ nFailed' = FALSE
  /\ nCalls' = nCalls + 1
  /\ UNCHANGED <<varsA, varsB, varsM, varsC, varsT, varsK, varsX>>

\* the primary channel: bot available?, room lookup, matrixBot.sendJobResult;
\* every failure is caught inside the router
PrimaryChannel ==
  /\ nPc = "primary"
  /\ \E o \in PrimaryOutcomes :
       /\ nOutcome' = o
       /\ nPrimary' = nPrimary + (IF o \in {"sent", "sendThrew"} THEN 1 ELSE 0)
       /\ nPc' = IF RouterResult(nRouter, o, nUrl, TRUE).fallback
                 THEN "fallback" ELSE "returned"
  /\ UNCHANGED <<nRouter, nUrl, nFallback, nPosts, nFailed, nCalls, varsA, varsB, varsM, varsC, varsT, varsK, varsX>>

\* the fallback channel: sendDirectLettaCallback(data) / the fetch to the
\* agent's messages endpoint, then the return (or rejection) of the call
FallbackChannel ==
  /\ nPc = "fallback"
  /\ \E postOk \in BOOLEAN :
       LET r == RouterResult(nRouter, nOutcome, nUrl, postOk) IN
       /\ nFallback' = nFallback + 1
       /\ nPosts' = nPosts + r.posts
       /\ nFailed' = r.failed
       /\ nPc' = IF r.threw THEN "threw" ELSE "returned"
  /\ UNCHANGED <<nRouter, nUrl, nOutcome, nPrimary, nCalls, varsA, varsB, varsM, varsC, varsT, varsK, varsX>>

NextN ==
  \/ StartNotification
  \/ PrimaryChannel
  \/ FallbackChannel

SpecRouter == Init /\ [][NextN]_vars

(***************************************************************************)
(* SpecMcp: ClaudeCodeMCPServer, claude_code_async.                        *)
(***************************************************************************)
ToolArgs == [prompt : ArgKinds, agentId : ArgKinds, interactionMode : ModeKinds,
             checkpointPattern : PatternKinds, workFolder : BOOLEAN,
             sessionId : BOOLEAN, maxIterations : MaxIterationsArgs]

\* toolArgs.maxIterations || 5
EffectiveMaxIterations(a) ==
  IF a.maxIterations = 0 THEN DefaultMaxIterations ELSE a.maxIterations

\* canContinue: checkpointReached && iterationCount < maxIterations
CanContinue(reached, count, a) == reached /\ count < EffectiveMaxIterations(a)

\* a well-formed continuation request: prompt, agentId and the session id a
\* checkpoint notification gave, optionally checkpoint mode again
ResumeArgs == {a \in ToolArgs :
                 /\ a.prompt = "string" /\ a.agentId = "string" /\ a.sessionId
                 /\ a.interactionMode \in {"missing", "checkpoint"}
                 /\ a.checkpointPattern \in {"missing", "valid"}}

\* the three parameter checks of handleClaudeCodeAsync
ValidToolArgs(a) ==
  /\ a.prompt \in {"string", "empty"}                     \* typeof prompt === 'string'
  /\ a.agentId = "string"                                 \* truthy and a string
  /\ (a.interactionMode \in {"missing", "empty"}          \* falsy: not checked
      \/ a.interactionMode \in InteractionModes)

\* toolArgs.interactionMode || 'autonomous'
EffectiveMode(a) ==
  IF a.interactionMode \in {"missing", "empty"} THEN "autonomous" ELSE a.interactionMode

\* interactionMode === 'checkpoint' && checkpointPattern
Monitored(a) ==
  EffectiveMode(a) = "checkpoint" /\ a.checkpointPattern \in {"valid", "invalid"}

\* trackJob: activeJobs.set(taskId, job); jobStats.totalStarted++
TrackJob ==
  /\ activeJobs' = activeJobs + 1
  /\ jobStats' = [jobStats EXCEPT !.totalStarted = @ + 1]

\* executeClaudeCodeWithMonitoring up to the return of its promise: token
\* check, WebSocket creation, then compilation of the pattern
StartMonitoring(a, token) ==
  IF ~token
  THEN jobPc' = "catch" /\ UNCHANGED wsCreated
  ELSE /\ wsCreated' = wsCreated + 1
       /\ jobPc' = IF a.checkpointPattern = "invalid" THEN "catch" ELSE "connecting"

\* executeThroughChat up to the return of its promise
StartChat(token) ==
  IF ~token
  THEN jobPc' = "catch" /\ UNCHANGED wsCreated
  ELSE wsCreated' = wsCreated + 1 /\ jobPc' = "connecting"

\* handleClaudeCodeAsync past its parameter checks, up to its return: a new
\* task id, then the un-awaited executeClaudeCodeAsync, which runs
\* synchronously up to its first pending await: trackJob, then the monitored
\* execution, or the standard one, which waits for ensureProject first when a
\* workFolder is given.
StartAsyncTask(a, token) ==
  /\ asyncResp' = "started"
  /\ taskIds' = taskIds + 1               \* const taskId = `task_${randomUUID()}`
  /\ TrackJob
  /\ responseBuffer' = FALSE
  /\ checkpointReached' = FALSE
  /\ ranAfterMatch' = FALSE
  /\ execEnd' = "none"
  /\ exitCode' = "none"
  /\ iterationCount' = 0                  \* let iterationCount = 0, never assigned again
  /\ IF Monitored(a) THEN StartMonitoring(a, token)
     ELSE IF a.workFolder THEN jobPc' = "standard" /\ UNCHANGED wsCreated
     ELSE StartChat(token)

\* handleClaudeCodeAsync(toolArgs), up to its return
HandleClaudeCodeAsync ==
  /\ asyncResp = "none"
  /\ \E a \in ToolArgs, token \in BOOLEAN :
       /\ toolArgs' = a
       /\ IF ~ValidToolArgs(a)
          THEN /\ asyncResp' = "invalidParams"
               /\ UNCHANGED <<jobPc, activeJobs, jobStats, wsCreated, taskIds, runB,
                              iterationCount>>
          ELSE StartAsyncTask(a, token)
  /\ UNCHANGED <<commandsSent, asyncNotified, resumes, lastNotice, canContinue,
                 varsA, varsN, varsM, varsC, varsT, varsK, varsX>>

\* handleClaudeCodeAsync(toolArgs) for a continuation request: toolArgs
\* carries the session id of the task paused at its checkpoint.  The handler
\* treats it as any other submission.
ResumeSession ==
  /\ jobPc = "done"
  /\ lastNotice = "checkpoint"
  /\ resumes < MaxResumes
  /\ \E a \in ResumeArgs, token \in BOOLEAN :
       /\ toolArgs' = a
       /\ StartAsyncTask(a, token)
  /\ resumes' = resumes + 1
  /\ UNCHANGED <<commandsSent, asyncNotified, lastNotice, canContinue,
                 varsA, varsN, varsM, varsC, varsT, varsK, varsX>>

\* executeClaudeCode after ensureProject has answered: executeThroughChat
ExecuteThroughChat ==
  /\ jobPc = "standard"
  /\ \E token \in BOOLEAN : StartChat(token)
  /\ UNCHANGED <<toolArgs, asyncResp, activeJobs, jobStats, commandsSent,
                 asyncNotified, taskIds, resumes, runB, lastNotice, iterB,
                 varsA, varsN, varsM, varsC, varsT, varsK, varsX>>

\* ws.on('open'): the claude-command message is sent; or ws.on('error')
WsConnect ==
  /\ jobPc = "connecting"
  /\ \E ok \in BOOLEAN :
       IF ok THEN commandsSent' = commandsSent + 1 /\ jobPc' = "running"
       ELSE jobPc' = "catch" /\ UNCHANGED commandsSent
  /\ UNCHANGED <<toolArgs, asyncResp, activeJobs, jobStats, wsCreated,
                 asyncNotified, taskIds, resumes, runB, lastNotice, iterB,
                 varsA, varsN, varsM, varsC, varsT, varsK, varsX>>

\* a monitor whose first match settles the invocation (not the program's)
MatchSettlesAtOnce(reached) == reached

\* does a checkpoint match settle the invocation: the message handler only
\* sets the flag ("Continue collecting output but mark checkpoint")
MatchSettles(reached) == FALSE

\* the checkpoint flag after a chunk of output: if (!checkpointReached &&
\* checkpointRegex && checkpointRegex.test(text)) checkpointReached = true
MonitorChunk(monitored, reached, matches) == reached \/ (monitored /\ matches)

\* ws.on('message') with assistant text or raw output: the text is appended to
\* responseBuffer and, in a monitored execution, tested against the pattern
OutputChunk ==
  /\ jobPc = "running"
  /\ \E matches \in BOOLEAN :
       LET reached == MonitorChunk(Monitored(toolArgs), checkpointReached, matches) IN
       /\ checkpointReached' = reached
       /\ jobPc' = IF MatchSettles(reached) THEN "notify" ELSE "running"
  /\ responseBuffer' = TRUE
  /\ ranAfterMatch' = (ranAfterMatch \/ checkpointReached)
  /\ UNCHANGED <<toolArgs, asyncResp, activeJobs, jobStats, wsCreated, commandsSent,
                 asyncNotified, taskIds, resumes, execEnd, exitCode, lastNotice,
                 iterB, varsA, varsN, varsM, varsC, varsT, varsK, varsX>>

\* does the execution promise resolve (rather than reject)
ExecutionResolves(a, end, hasOutput) ==
  IF Monitored(a)
  THEN end \in {"claude-complete", "close", "timeout"}
  ELSE end = "claude-complete" \/ (end \in {"close", "timeout"} /\ hasOutput)

\* an engine that completes the job whether or not a checkpoint was reached
\* (not the program's)
JobAfterRunCompleted(reached, active, stats) ==
  [active |-> active - 1, stats |-> [stats EXCEPT !.totalCompleted = @ + 1]]

\* the job tracker after a resolved execution: updateJob(taskId,
\* {checkpointReached: true, ...}) on a checkpoint, completeJob(taskId,
\* {success: true, ...}) otherwise
JobAfterRun(reached, active, stats) ==
  IF reached
  THEN [active |-> active, stats |-> [stats EXCEPT !.totalCheckpoints = @ + 1]]
  ELSE [active |-> active - 1, stats |-> [stats EXCEPT !.totalCompleted = @ + 1]]

\* the execution ends (claude-complete with the exit code of the process,
\* claude-error, WebSocket error or close, or the 5 minute timer) and
\* executeClaudeCodeAsync resumes, up to the call of sendAsyncNotification
ExecutionEnd ==
  /\ jobPc = "running"
  /\ \E end \in ExecutionEnds, code \in {"zero", "nonzero"} :
       /\ execEnd' = end
       /\ exitCode' = IF end = "claude-complete" THEN code ELSE "none"
       /\ IF ~ExecutionResolves(toolArgs, end, responseBuffer)
          THEN /\ jobPc' = "catch"
               /\ checkpointReached' = FALSE       \* no response reaches the engine
               /\ UNCHANGED <<activeJobs, jobStats>>
          ELSE LET r == JobAfterRun(checkpointReached, activeJobs, jobStats) IN
               /\ jobPc' = "notify"
               /\ activeJobs' = r.active
               /\ jobStats' = r.stats
               /\ UNCHANGED checkpointReached
  /\ UNCHANGED <<toolArgs, asyncResp, wsCreated, commandsSent, asyncNotified,
                 taskIds, resumes, responseBuffer, ranAfterMatch, lastNotice,
                 iterB, varsA, varsN, varsM, varsC, varsT, varsK, varsX>>

\* catch (error): completeJob(taskId, {success: false, ...})
CatchFailure ==
  /\ jobPc = "catch"
  /\ jobStats' = [jobStats EXCEPT !.totalFailed = @ + 1]
  /\ activeJobs' = activeJobs - 1
  /\ jobPc' = "notifyErr"
  /\ UNCHANGED <<toolArgs, asyncResp, wsCreated, commandsSent, asyncNotified,
                 taskIds, resumes, runB, lastNotice, iterB, varsA, varsN, varsM, varsC, varsT, varsK, varsX>>

\* await this.sendAsyncNotification({...}): success with the checkpoint flag
\* after a resolved execution, success: false from the catch block
AsyncNotify ==
  /\ jobPc \in {"notify", "notifyErr"}
  /\ asyncNotified' = asyncNotified + 1
  /\ lastNotice' = IF jobPc = "notifyErr" THEN "failure"
                   ELSE IF checkpointReached THEN "checkpoint" ELSE "success"
  /\ canContinue' = IF jobPc = "notifyErr" THEN FALSE
                    ELSE CanContinue(checkpointReached, iterationCount, toolArgs)
  /\ \E primary \in PrimaryOutcomes, url \in UrlKinds, postOk \in BOOLEAN :
       jobPc' = IF SendAsyncNotification(primary, url, postOk).threw
                THEN "rejected" ELSE "done"
  /\ UNCHANGED <<toolArgs, asyncResp, activeJobs, jobStats, wsCreated,
                 commandsSent, taskIds, resumes, runB, iterationCount,
                 varsA, varsN, varsM, varsC, varsT, varsK, varsX>>

NextB ==
  \/ HandleClaudeCodeAsync
  \/ ResumeSession
  \/ ExecuteThroughChat
  \/ WsConnect
  \/ OutputChunk
  \/ ExecutionEnd
  \/ CatchFailure
  \/ AsyncNotify

SpecMcp == Init /\ [][NextB]_vars

(***************************************************************************)
(* SpecMonitor: executeClaudeCodeWithMonitoring, message by message.       *)
(***************************************************************************)
\* messages of the backend that the handler looks at before the execution ends
MessageKinds == {"session-created", "assistant", "result", "claude-output"}

\* the messages that carry a text chunk: assistant text, raw output
TextKinds == {"assistant", "claude-output"}

\* responseBuffer after one message.  n is the arrival number of the message.
\*   assistant text:  responseBuffer += item.text + '\n'
\*   result:          responseBuffer = message.data.result
\*   claude-output:   responseBuffer += message.data
HandleMessage(buffer, kind, n) ==
  IF kind \in TextKinds THEN Append(buffer, [kind |-> kind, n |-> n])
  ELSE IF kind = "result" THEN <<[kind |-> "result", n |-> n]>>
  ELSE buffer

\* result field of the resolved promise: claude-complete gives
\* responseBuffer || 'Command completed', close and timeout give responseBuffer
ResolvedResult(buffer, end) ==
  IF end = "claude-complete" /\ buffer = <<>>
  THEN <<[kind |-> "Command completed", n |-> 0]>>
  ELSE buffer

\* ws.on('open'): the claude-command message is sent
MonitorOpen ==
  /\ monPc = "idle"
  /\ monPc' = "running"
  /\ UNCHANGED <<monBuffer, monReceived, monReached, monMessages, monResult,
                 varsA, varsN, varsB, varsC, varsT, varsK, varsX>>

\* ws.on('message') for one message that does not end the execution
MonitorMessage ==
  /\ monPc = "running"
  /\ monMessages < MaxMessages
  /\ \E kind \in MessageKinds, matches \in BOOLEAN :
       /\ monBuffer' = HandleMessage(monBuffer, kind, monMessages + 1)
       /\ monReceived' = IF kind \in TextKinds
                         THEN Append(monReceived, [kind |-> kind, n |-> monMessages + 1])
                         ELSE monReceived
       /\ monReached' = IF kind \in TextKinds
                        THEN MonitorChunk(TRUE, monReached, matches)
                        ELSE monReached
  /\ monMessages' = monMessages + 1
  /\ UNCHANGED <<monPc, monResult, varsA, varsN, varsB, varsC, varsT, varsK, varsX>>

\* claude-complete, claude-error, ws.on('error'), ws.on('close') or the timer
MonitorEnd ==
  /\ monPc = "running"
  /\ \E end \in ExecutionEnds :
       IF end \in {"claude-complete", "close", "timeout"}
       THEN /\ monPc' = "resolved"
            /\ monResult' = ResolvedResult(monBuffer, end)
       ELSE /\ monPc' = "rejected"
            /\ UNCHANGED monResult
  /\ UNCHANGED <<monBuffer, monReceived, monReached, monMessages, varsA, varsN, varsB, varsC, varsT, varsK, varsX>>

NextM ==
  \/ MonitorOpen
  \/ MonitorMessage
  \/ MonitorEnd

SpecMonitor == Init /\ [][NextM]_vars

(***************************************************************************)
(* SpecCleanup: LettaMemoryClient.cleanupOldTaskBlocks, detach by detach.  *)
(***************************************************************************)
\* a listed block: label starts with claude_task_, metadata.elevated is set,
\* metadata.created_at (0: absent, compared as '')
BlockShapes == [task : BOOLEAN, elevated : BOOLEAN, created_at : 0..MaxStamp]

BlockLists == UNION {[1..n -> BlockShapes] : n \in 0..MaxBlocks}

\* keepCount values of a call
CleanupKeepArgs == MinKeepTaskBlocks..DefaultKeepTaskBlocks

\* the filter: b.label?.startsWith('claude_task_') && !b.metadata?.elevated
IsTaskBlock(b) == b.task /\ ~b.elevated

\* taskBlocks, as the indices of the listed blocks that pass the filter, in
\* list order
RECURSIVE FilterTaskBlocks(_, _)
FilterTaskBlocks(bs, i) ==
  IF i > Len(bs) THEN <<>>
  ELSE IF IsTaskBlock(bs[i]) THEN <<i>> \o FilterTaskBlocks(bs, i + 1)
  ELSE FilterTaskBlocks(bs, i + 1)

\* a comparator that puts the older block first (not the program's)
SortsBeforeOldestFirst(timeA, timeB) == timeA < timeB

\* the comparator (a, b) => timeB.localeCompare(timeA) is negative: a is put
\* before b
SortsBefore(timeA, timeB) == timeA > timeB

\* insert index i into a sorted index sequence, behind every element the
\* comparator does not put it before (Array.prototype.sort is stable)
RECURSIVE InsertSorted(_, _, _)
InsertSorted(sorted, i, bs) ==
  IF sorted = <<>> THEN <<i>>
  ELSE IF SortsBefore(bs[i].created_at, bs[Head(sorted)].created_at)
       THEN <<i>> \o sorted
       ELSE <<Head(sorted)>> \o InsertSorted(Tail(sorted), i, bs)

\* taskBlocks.sort(...)
RECURSIVE SortTaskBlocks(_, _)
SortTaskBlocks(idx, bs) ==
  IF idx = <<>> THEN <<>>
  ELSE InsertSorted(SortTaskBlocks(SubSeq(idx, 1, Len(idx) - 1), bs), idx[Len(idx)], bs)

\* taskBlocks.slice(keepCount)
Slice(s, from) == SubSeq(s, from + 1, Len(s))

\* blocksToRemove of a call
RemovalList(bs, keep) == Slice(SortTaskBlocks(FilterTaskBlocks(bs, 1), bs), keep)

\* cleanupOldTaskBlocks(agentId, keepCount) up to its first detach request:
\* listMemoryBlocks (a failure is caught by the function's own catch), filter,
\* sort, slice
CleanupCall ==
  /\ cleanupPc = "idle"
  /\ \E bs \in BlockLists, keep \in CleanupKeepArgs, listOk \in BOOLEAN :
       /\ keepCount' = keep
       /\ IF listOk
          THEN /\ blocks' = bs
               /\ toRemove' = RemovalList(bs, keep)
               /\ cleanupPc' = IF RemovalList(bs, keep) = <<>> THEN "done" ELSE "detaching"
          ELSE /\ cleanupPc' = "caught"
               /\ UNCHANGED <<blocks, toRemove>>
  /\ UNCHANGED <<attempted, detached, varsA, varsN, varsB, varsM, varsT, varsK, varsX>>

\* one round of the loop: await this.detachBlockFromAgent(agentId, block.id).
\* detachBlockFromAgent rethrows a failed request; the loop has no try of its
\* own, so the throw leaves the loop for the catch of cleanupOldTaskBlocks.
CleanupDetach ==
  /\ cleanupPc = "detaching"
  /\ attempted' = attempted \cup {Head(toRemove)}
  /\ \E ok \in BOOLEAN :
       IF ok
       THEN /\ detached' = detached \cup {Head(toRemove)}
            /\ toRemove' = Tail(toRemove)
            /\ cleanupPc' = IF Tail(toRemove) = <<>> THEN "done" ELSE "detaching"
       ELSE /\ cleanupPc' = "caught"
            /\ UNCHANGED <<detached, toRemove>>
  /\ UNCHANGED <<blocks, keepCount, varsA, varsN, varsB, varsM, varsT, varsK, varsX>>

NextC ==
  \/ CleanupCall
  \/ CleanupDetach

SpecCleanup == Init /\ [][NextC]_vars

(***************************************************************************)
(* SpecTracker: the TaskTracker registry and its periodic sweep.           *)
(***************************************************************************)
TrackerIds == 1..NumTrackerIds

\* one step of the wall clock
Tick == TaskTTL \div 2

\* a sweep that also removes a descriptor whose age equals the time-to-live
\* (not the program's)
ExpiredAtTTL(age) == age >= TaskTTL

\* cleanupOldTasks: if (age > this.taskTTL) toDelete.push(taskId)
Expired(age) == age > TaskTTL

\* Map.delete(id)
MapDelete(m, id) == [k \in DOMAIN m \ {id} |-> m[k]]

\* Map.set(id, v)
MapSet(m, id, v) == [k \in DOMAIN m \cup {id} |-> IF k = id THEN v ELSE m[k]]

\* time passes
AdvanceClock ==
  /\ now < MaxTicks * Tick
  /\ now' = now + Tick
  /\ trackerOp' = <<"none", 0>>
  /\ UNCHANGED <<activeTasks, inFlight, varsA, varsN, varsB, varsM, varsC, varsK, varsX>>

\* createTask(taskId, agentId, prompt), called by the handler for a new task id
CreateTask(id) ==
  /\ id \notin DOMAIN activeTasks
  /\ id \notin inFlight
  /\ activeTasks' = MapSet(activeTasks, id, now)
  /\ inFlight' = inFlight \cup {id}
  /\ trackerOp' = <<"createTask", id>>
  /\ UNCHANGED <<now, varsA, varsN, varsB, varsM, varsC, varsK, varsX>>

\* removeTask(taskId): called by the engine when the run of the task ends, and
\* by any caller for any id
RemoveTask(id) ==
  /\ activeTasks' = MapDelete(activeTasks, id)
  /\ inFlight' = inFlight \ {id}
  /\ trackerOp' = <<"removeTask", id>>
  /\ UNCHANGED <<now, varsA, varsN, varsB, varsM, varsC, varsK, varsX>>

\* cleanupOldTasks(), run by the interval timer
CleanupOldTasks ==
  /\ LET toDelete == {id \in DOMAIN activeTasks : Expired(now - activeTasks[id])} IN
       activeTasks' = [k \in DOMAIN activeTasks \ toDelete |-> activeTasks[k]]
  /\ trackerOp' = <<"cleanupOldTasks", 0>>
  /\ UNCHANGED <<now, inFlight, varsA, varsN, varsB, varsM, varsC, varsK, varsX>>

NextT ==
  \/ AdvanceClock
  \/ \E id \in TrackerIds : CreateTask(id)
  \/ \E id \in TrackerIds : RemoveTask(id)
  \/ CleanupOldTasks

SpecTracker == Init /\ [][NextT]_vars

(***************************************************************************)
(* SpecClassify: LettaMemoryClient.classifyTask.                           *)
(***************************************************************************)
\* what classifyTask reads of a prompt: its length, which keyword groups
\* occur in it (in the order of the if/else-if chain) and whether a step
\* indicator (then, after, next, finally, also, and) occurs in it
PromptShapes ==
  [length : {0} \cup {50 * k : k \in 1..MaxLengthSteps},
   fileWords : BOOLEAN, codeWords : BOOLEAN, analysisWords : BOOLEAN,
   searchWords : BOOLEAN, gitWords : BOOLEAN, terminalWords : BOOLEAN,
   stepIndicator : BOOLEAN]

\* the empty prompt contains no word
Prompts ==
  {p \in PromptShapes :
     p.length = 0 => ~(p.fileWords \/ p.codeWords \/ p.analysisWords \/ p.searchWords
                       \/ p.gitWords \/ p.terminalWords \/ p.stepIndicator)}

Min(a, b) == IF a < b THEN a ELSE b

Max(a, b) == IF a > b THEN a ELSE b

\* the if/else-if chain over the keyword groups
KeywordTaskType(p) ==
  IF p.fileWords THEN "file_operation"
  ELSE IF p.codeWords THEN "code_generation"
  ELSE IF p.analysisWords THEN "analysis"
  ELSE IF p.searchWords THEN "search"
  ELSE IF p.gitWords THEN "git_operation"
  ELSE IF p.terminalWords THEN "terminal_command"
  ELSE "other"

\* Math.min(10, Math.max(1, Math.floor(prompt.length / 100) + 1))
LengthComplexity(length) == Min(10, Max(1, (length \div 100) + 1))

\* a raise that is not capped (not the program's)
RaisedComplexityUncapped(score) == score + 2

\* Math.min(10, complexity_score + 2)
RaisedComplexity(score) == Min(10, score + 2)

\* archive_priority and should_archive
ArchiveDecision(score, type) ==
  IF score >= 7 \/ type = "multi_step"
  THEN [archive_priority |-> "high", should_archive |-> TRUE]
  ELSE IF score >= 4 \/ type \in {"code_generation", "analysis", "git_operation"}
  THEN [archive_priority |-> "medium", should_archive |-> TRUE]
  ELSE IF type \in {"file_operation", "search"}
  THEN [archive_priority |-> "low", should_archive |-> TRUE]
  ELSE [archive_priority |-> "low", should_archive |-> FALSE]

\* classifyTask(prompt)
ClassifyTask(p) ==
  LET type == IF p.stepIndicator THEN "multi_step" ELSE KeywordTaskType(p)
      score == IF p.stepIndicator THEN RaisedComplexity(LengthComplexity(p.length))
               ELSE LengthComplexity(p.length)
      archive == ArchiveDecision(score, type) IN
  [task_type |-> type, complexity_score |-> score,
   should_archive |-> archive.should_archive,
   archive_priority |-> archive.archive_priority]

\* a call of classifyTask (it reads and writes no state of the client, so
\* one call is followed)
Classify ==
  /\ classification.task_type = "none"
  /\ \E p \in Prompts :
       /\ classifyInput' = p
       /\ classification' = ClassifyTask(p)
  /\ UNCHANGED <<varsA, varsN, varsB, varsM, varsC, varsT, varsX>>

NextK == Classify

SpecClassify == Init /\ [][NextK]_vars

(***************************************************************************)
(* SpecBot: the shared Matrix bot of letta-callback.ts under several       *)
(* sendResultToLetta calls.                                                *)
(***************************************************************************)
\* sendResultToLetta -> initializeServices, up to the first pending await:
\* if (!matrixBot) { matrixBot = create...; await matrixBot.initialize() },
\* else if (!mappingClient) { mappingClient = create...; await
\* isServiceAvailable() }, else await mappingClient.getPrimaryRoom(agentId)
BotCallStart(c) ==
  /\ botPc[c] = "idle"
  /\ IF ~matrixBot
     THEN /\ matrixBot' = TRUE
          /\ botPc' = [botPc EXCEPT ![c] = "initializing"]
          /\ UNCHANGED mappingClient
     ELSE /\ mappingClient' = TRUE
          /\ botPc' = [botPc EXCEPT ![c] = "lookup"]
          /\ UNCHANGED matrixBot
  /\ UNCHANGED <<isInitialized, sentUninitialized, varsOld, varsJ, varsS, varsH, varsE>>

\* MatrixBotService.initialize: client.start() answers.  On success
\* isInitialized = true and initializeServices goes on to the mapping client;
\* on failure initialize and initializeServices rethrow and sendResultToLetta
\* catches and falls back (matrixBot stays set).
BotInitializeEnd(c) ==
  /\ botPc[c] = "initializing"
  /\ \E ok \in BOOLEAN :
       IF ok
       THEN /\ isInitialized' = TRUE
            /\ mappingClient' = TRUE
            /\ botPc' = [botPc EXCEPT ![c] = "lookup"]
       ELSE /\ botPc' = [botPc EXCEPT ![c] = "fallback"]
            /\ UNCHANGED <<isInitialized, mappingClient>>
  /\ UNCHANGED <<matrixBot, sentUninitialized, varsOld, varsJ, varsS, varsH, varsE>>

\* the lookups of the call answer (isServiceAvailable, getPrimaryRoom): with
\* a room, `if (matrixBot && mappingClient)` holds and matrixBot.sendJobResult
\* is invoked; without one, or when a lookup throws, the call falls back
BotSendJobResult(c) ==
  /\ botPc[c] = "lookup"
  /\ \E room \in BOOLEAN :
       IF room /\ matrixBot /\ mappingClient
       THEN /\ botPc' = [botPc EXCEPT ![c] = "sent"]
            /\ sentUninitialized' = (sentUninitialized \/ ~isInitialized)
       ELSE /\ botPc' = [botPc EXCEPT ![c] = "fallback"]
            /\ UNCHANGED sentUninitialized
  /\ UNCHANGED <<matrixBot, isInitialized, mappingClient, varsOld, varsJ, varsS, varsH, varsE>>

NextP ==
  \E c \in 1..NumBotCalls :
    \/ BotCallStart(c)
    \/ BotInitializeEnd(c)
    \/ BotSendJobResult(c)

SpecBot == Init /\ [][NextP]_vars

(***************************************************************************)
(* SpecBackend: spawnClaude, abortClaudeSession and ClaudeStatusTracker.   *)
(***************************************************************************)
\* processKey = capturedSessionId || sessionId || Date.now().toString(), at
\* the spawn (capturedSessionId starts as sessionId)
ProcessKey(i) == IF suppliedId[i] THEN <<"session", 0>> ELSE <<"time", i>>

\* finalSessionId = capturedSessionId || sessionId || processKey
FinalSessionId(i) ==
  IF suppliedId[i] THEN <<"session", 0>>
  ELSE IF captured[i] THEN <<"captured", i>> ELSE <<"time", i>>

\* ClaudeStatusTracker.startJob(jobId)
StartJob(tr, k) ==
  [tr EXCEPT !.jobs[k] = "running", !.totalJobsStarted = @ + 1]

\* ClaudeStatusTracker.completeJob(jobId, result)
CompleteJob(tr, k, error) ==
  IF tr.jobs[k] # "running" THEN tr
  ELSE IF error THEN [tr EXCEPT !.jobs[k] = "failed", !.totalJobsFailed = @ + 1]
  ELSE [tr EXCEPT !.jobs[k] = "completed", !.totalJobsCompleted = @ + 1]

\* ClaudeStatusTracker.abortJob(jobId)
AbortJob(tr, k) ==
  IF tr.jobs[k] # "running" THEN tr
  ELSE [tr EXCEPT !.jobs[k] = "aborted", !.totalJobsAborted = @ + 1]

\* spawnClaude up to the return of its promise: the process is spawned, stored
\* under processKey and tracked as job claude-<processKey>
SpawnClaude(i) ==
  /\ procState[i] = "none"
  /\ \E supplied \in BOOLEAN :
       LET key == IF supplied THEN <<"session", 0>> ELSE <<"time", i>> IN
       /\ suppliedId' = [suppliedId EXCEPT ![i] = supplied]
       /\ activeClaudeProcesses' = [activeClaudeProcesses EXCEPT ![key] = i]
       /\ statusTracker' = StartJob(statusTracker, key)
  /\ procState' = [procState EXCEPT ![i] = "running"]
  /\ UNCHANGED <<captured, sessionCreatedSent, wsSent, varsOld, varsP, varsS, varsH, varsE>>

\* a stdout handler that sends the parsed response before the session-created
\* event (not the program's)
StdoutSendsResponseFirst(kind, capture, notify) ==
  IF kind = "text" THEN <<"claude-output">>
  ELSE <<IF kind = "json-id" THEN "claude-response-id" ELSE "claude-response">>
       \o (IF capture /\ notify THEN <<"session-created">> ELSE <<>>)

\* what the stdout handler sends for one line: a line that is not JSON goes
\* out as claude-output; a JSON line as claude-response, preceded by
\* session-created when the line is the one the session id is captured from
\* and `!sessionId && !sessionCreatedSent` holds
StdoutSends(kind, capture, notify) ==
  IF kind = "text" THEN <<"claude-output">>
  ELSE (IF capture /\ notify THEN <<"session-created">> ELSE <<>>)
       \o <<IF kind = "json-id" THEN "claude-response-id" ELSE "claude-response">>

\* claudeProcess.stdout.on('data') for one line: JSON with a session_id, JSON
\* without one, or text that does not parse
StdoutLine(i) ==
  /\ procState[i] \in {"running", "killed"}
  /\ Len(wsSent[i]) < MaxSends
  /\ \E kind \in {"json-id", "json", "text"} :
       LET capture == kind = "json-id" /\ ~suppliedId[i] /\ ~captured[i]
           notify == ~suppliedId[i] /\ ~sessionCreatedSent[i] IN
       /\ captured' = [captured EXCEPT ![i] = @ \/ capture]
       /\ sessionCreatedSent' = [sessionCreatedSent EXCEPT ![i] = @ \/ capture]
       /\ activeClaudeProcesses' =
            IF capture
            THEN [activeClaudeProcesses EXCEPT ![<<"time", i>>] = 0, ![<<"captured", i>>] = i]
            ELSE activeClaudeProcesses
       /\ wsSent' = [wsSent EXCEPT ![i] = @ \o StdoutSends(kind, capture, notify)]
  /\ UNCHANGED <<procState, suppliedId, statusTracker, varsOld, varsP, varsS, varsH, varsE>>

\* claudeProcess.on('close') (exit code 0, another code, or null after a
\* signal) and claudeProcess.on('error'): the entry of finalSessionId is
\* deleted and the job claude-<processKey> completed
ProcessClose(i) ==
  /\ procState[i] \in {"running", "killed"}
  /\ \E error \in BOOLEAN :
       /\ procState[i] = "killed" => error
       /\ statusTracker' = CompleteJob(statusTracker, ProcessKey(i), error)
  /\ activeClaudeProcesses' = [activeClaudeProcesses EXCEPT ![FinalSessionId(i)] = 0]
  /\ procState' = [procState EXCEPT ![i] = "closed"]
  /\ wsSent' = [wsSent EXCEPT ![i] = Append(@, "claude-complete")]
  /\ UNCHANGED <<suppliedId, captured, sessionCreatedSent, varsOld, varsP, varsS, varsH, varsE>>

\* abortClaudeSession(sessionId) for a key with an entry: abortJob of
\* claude-<sessionId>, process.kill, delete; without an entry it returns false
AbortClaudeSession(k) ==
  /\ activeClaudeProcesses[k] # 0
  /\ statusTracker' = AbortJob(statusTracker, k)
  /\ procState' = [procState EXCEPT ![activeClaudeProcesses[k]] =
                     IF @ = "running" THEN "killed" ELSE @]
  /\ activeClaudeProcesses' = [activeClaudeProcesses EXCEPT ![k] = 0]
  /\ UNCHANGED <<suppliedId, captured, sessionCreatedSent, wsSent, varsOld, varsP, varsS, varsH, varsE>>

NextJ ==
  \/ \E i \in 1..NumInvocations : SpawnClaude(i) \/ StdoutLine(i) \/ ProcessClose(i)
  \/ \E k \in SessionKeys : AbortClaudeSession(k)

SpecBackend == Init /\ [][NextJ]_vars

(***************************************************************************)
(* SpecSse: the sessions of the SSE server.                                *)
(***************************************************************************)
\* a limit check that admits one session more (not the program's)
AtCapacityAboveLimit(sessionCount) == sessionCount > maxSessions

\* GET /sse: sessionCount >= SESSION_CONFIG.maxSessions
AtCapacity(sessionCount) == sessionCount >= maxSessions

\* a sweep that also removes at exactly the timeout (not the program's)
InactiveFromTimeout(at, last) == at - last >= sessionTimeout

\* cleanupInactiveSessions: inactiveTime > timeout
Inactive(at, last) == at - last > sessionTimeout

\* time passes, by half a session timeout
SseAdvanceClock ==
  /\ sseNow < MaxSseTicks * (sessionTimeout \div 2)
  /\ sseNow' = sseNow + sessionTimeout \div 2
  /\ sseReply' = <<"none", 0, 0>>
  /\ UNCHANGED <<activeSessions, lastActivity, acceptedAt, varsOld, varsP, varsJ, varsH, varsE>>

\* GET /sse: 503 at the session limit; otherwise the session is stored under
\* the transport's freshly generated id (the next id never used) before
\* connectTransport, whose failure is answered 500 and leaves the session
\* stored
SseConnect ==
  /\ IF AtCapacity(Cardinality({s \in 1..NumSseIds : activeSessions[s] = "active"}))
     THEN /\ sseReply' = <<"connect", 0, 503>>
          /\ UNCHANGED <<activeSessions, lastActivity>>
     ELSE \E s \in 1..NumSseIds, status \in {200, 500} :
            /\ activeSessions[s] = "unused"
            /\ \A u \in 1..(s - 1) : activeSessions[u] # "unused"
            /\ activeSessions' = [activeSessions EXCEPT ![s] = "active"]
            /\ lastActivity' = [lastActivity EXCEPT ![s] = sseNow]
            /\ sseReply' = <<"connect", s, status>>
  /\ UNCHANGED <<acceptedAt, sseNow, varsOld, varsP, varsJ, varsH, varsE>>

\* POST /messages?sessionId=s (0: no sessionId): 400 without an id, 404 for
\* an id that is not in activeSessions, otherwise lastActivity is refreshed
\* and the transport handles the message (500 when it throws)
SseMessage(s) ==
  /\ IF s = 0
     THEN /\ sseReply' = <<"message", s, 400>>
          /\ UNCHANGED <<lastActivity, acceptedAt>>
     ELSE IF activeSessions[s] # "active"
     THEN /\ sseReply' = <<"message", s, 404>>
          /\ UNCHANGED <<lastActivity, acceptedAt>>
     ELSE /\ lastActivity' = [lastActivity EXCEPT ![s] = sseNow]
          /\ acceptedAt' = [acceptedAt EXCEPT ![s] = sseNow]
          /\ \E status \in {200, 500} : sseReply' = <<"message", s, status>>
  /\ UNCHANGED <<activeSessions, sseNow, varsOld, varsP, varsJ, varsH, varsE>>

\* transport.onclose of an active session: the client went away
SseTransportClose(s) ==
  /\ activeSessions[s] = "active"
  /\ activeSessions' = [activeSessions EXCEPT ![s] = "removed"]
  /\ sseReply' = <<"close", s, 0>>
  /\ UNCHANGED <<lastActivity, acceptedAt, sseNow, varsOld, varsP, varsJ, varsH, varsE>>

\* cleanupInactiveSessions, run by the interval timer
CleanupInactiveSessions ==
  /\ activeSessions' =
       [s \in 1..NumSseIds |->
          IF activeSessions[s] = "active" /\ Inactive(sseNow, lastActivity[s])
          THEN "removed" ELSE activeSessions[s]]
  /\ sseReply' = <<"cleanup", 0, 0>>
  /\ UNCHANGED <<lastActivity, acceptedAt, sseNow, varsOld, varsP, varsJ, varsH, varsE>>

NextS ==
  \/ SseAdvanceClock
  \/ SseConnect
  \/ \E s \in 0..NumSseIds : SseMessage(s)
  \/ \E s \in 1..NumSseIds : SseTransportClose(s)
  \/ CleanupInactiveSessions

SpecSse == Init /\ [][NextS]_vars

(***************************************************************************)
(* SpecHttp: the session map of the streamable-HTTP server.  The header    *)
(* mcp-session-id of a request is -1 when absent, 0 for a string that      *)
(* names a member of Object.prototype (constructor, toString, __proto__),  *)
(* and 1..NumHttpIds for the ids randomUUID() generates.                   *)
(***************************************************************************)
\* `transports[sessionId]` is truthy: transports is the object literal {},
\* so that the lookup also finds what Object.prototype defines
TransportsHas(id) == id = 0 \/ (id >= 1 /\ transports[id] = "registered")

\* app.post('/mcp'): a found transport handles the request (what the lookup
\* inherits has no handleRequest: the TypeError is answered 500); without a
\* session id a transport and a server are created, and an initialize request
\* registers the transport under the generated id while any other request is
\* refused by the transport; an id that is not found is answered 400
HttpPost(id) ==
  /\ IF id # -1 /\ TransportsHas(id)
     THEN /\ httpReply' = <<"POST", id, IF id = 0 THEN 500 ELSE 200>>
          /\ UNCHANGED <<transports, httpCreated>>
     ELSE IF id = -1
     THEN /\ httpCreated < MaxHttpCreated
          /\ httpCreated' = httpCreated + 1
          /\ \/ \E s \in 1..NumHttpIds :
                  /\ transports[s] = "unused"
                  /\ \A u \in 1..(s - 1) : transports[u] # "unused"
                  /\ transports' = [transports EXCEPT ![s] = "registered"]
                  /\ httpReply' = <<"POST", id, 200>>
             \/ /\ httpReply' = <<"POST", id, 400>>
                /\ UNCHANGED transports
     ELSE /\ httpReply' = <<"POST", id, 400>>
          /\ UNCHANGED <<transports, httpCreated>>
  /\ UNCHANGED <<varsOld, varsP, varsJ, varsS, varsE>>

\* app.get('/mcp')
HttpGet(id) ==
  /\ httpReply' = <<"GET", id, IF id = -1 \/ ~TransportsHas(id) THEN 400
                                ELSE IF id = 0 THEN 500 ELSE 200>>
  /\ UNCHANGED <<transports, httpCreated, varsOld, varsP, varsJ, varsS, varsE>>

\* app.delete('/mcp'): `delete transports[sessionId]` removes an own entry
\* and nothing else
HttpDelete(id) ==
  /\ IF id # -1 /\ TransportsHas(id)
     THEN /\ transports' = [s \in 1..NumHttpIds |-> IF s = id THEN "deleted" ELSE transports[s]]
          /\ httpReply' = <<"DELETE", id, 200>>
     ELSE /\ httpReply' = <<"DELETE", id, 404>>
          /\ UNCHANGED transports
  /\ UNCHANGED <<httpCreated, varsOld, varsP, varsJ, varsS, varsE>>

NextH == \E id \in -1..NumHttpIds : HttpPost(id) \/ HttpGet(id) \/ HttpDelete(id)

SpecHttp == Init /\ [][NextH]_vars

(***************************************************************************)
(* SpecEvents: InMemoryEventStore.  An event id is the string              *)
(* streamId_Date.now()_suffix, kept as the tuple of its three parts; the   *)
(* streams are two whose ids are UUIDs and the transport's standalone      *)
(* stream _GET_stream.                                                     *)
(***************************************************************************)
\* getStreamIdFromEventId: eventId.split('_')[0], which is the stream id
\* when that holds no underscore and '' for _GET_stream
GetStreamIdFromEventId(eventId) ==
  IF eventId[1] = "_GET_stream" THEN "" ELSE eventId[1]

\* what replayEventsAfter sends for a stored lastEventId: the entries are
\* sorted by event id (localeCompare: within one stream by Date.now(), then
\* by the random suffix), those of another stream are skipped, and what
\* comes after lastEventId in that order is sent
Sent(lastEventId) ==
  LET streamId == GetStreamIdFromEventId(lastEventId)
      Less(e, f) == e[2] < f[2] \/ (e[2] = f[2] /\ e[3] < f[3])
      later == {events[p] : p \in {q \in DOMAIN events :
                   events[q][1] = streamId /\ Less(lastEventId, events[q])}} IN
  IF streamId = "" THEN <<>>
  ELSE [k \in 1..Cardinality(later) |->
          CHOOSE e \in later : Cardinality({f \in later : Less(f, e)}) = k - 1]

\* a millisecond passes
EventsAdvanceClock ==
  /\ eventsNow < MaxEventTicks
  /\ eventsNow' = eventsNow + 1
  /\ replay' = [lastEventId |-> <<"none", 0, 0>>, sent |-> <<>>, returned |-> ""]
  /\ UNCHANGED <<events, varsOld, varsP, varsJ, varsS, varsH>>

\* storeEvent(streamId, message) with a generated id that is not in the Map
StoreEvent ==
  /\ Len(events) < MaxEvents
  /\ \E streamId \in {"a", "b", "_GET_stream"}, suffix \in 1..NumSuffixes :
       /\ \A p \in DOMAIN events : events[p] # <<streamId, eventsNow, suffix>>
       /\ events' = Append(events, <<streamId, eventsNow, suffix>>)
  /\ replay' = [lastEventId |-> <<"none", 0, 0>>, sent |-> <<>>, returned |-> ""]
  /\ UNCHANGED <<eventsNow, varsOld, varsP, varsJ, varsS, varsH>>

\* replayEventsAfter(lastEventId, {send}) for the empty string, an id that
\* is not stored, or a stored one
ReplayEventsAfter ==
  /\ \E lastEventId \in ({"", "a", "b", "_GET_stream"} \X (0..MaxEventTicks) \X (1..NumSuffixes)) :
       /\ lastEventId[1] = "" => lastEventId = <<"", 0, 1>>
       /\ replay' =
            IF lastEventId[1] = "" \/ \A p \in DOMAIN events : events[p] # lastEventId
            THEN [lastEventId |-> lastEventId, sent |-> <<>>, returned |-> ""]
            ELSE [lastEventId |-> lastEventId, sent |-> Sent(lastEventId),
                  returned |-> GetStreamIdFromEventId(lastEventId)]
  /\ UNCHANGED <<events, eventsNow, varsOld, varsP, varsJ, varsS, varsH>>

NextE == EventsAdvanceClock \/ StoreEvent \/ ReplayEventsAfter

SpecEvents == Init /\ [][NextE]_vars

(***************************************************************************)
(* Properties of ClaudeCodeServer (Spec).                                  *)
(***************************************************************************)
\* C1: when a task has run to its end, the notification router
\* sendResultToLetta has been invoked exactly once for it, never zero times
\* and never twice or more.
C1_ExactlyOneNotification ==
  \A t \in Tasks : pc[t] = "done" => notifyCalls[t] = 1

\* C2: once the status record of a task holds a terminal status (completed or
\* failed), no later step writes a different status to it.
C2_TerminalWrittenOnce ==
  [][\A t \in Tasks : recStatus[t] \in TerminalStatus => recStatus'[t] = recStatus[t]]_vars

\* C3: when the record creation and the background run of a task have both
\* finished, the task's status record, if one was created, holds a terminal
\* status: it is not left pending for ever.
C3_RecordReachesTerminal ==
  \A t \in Tasks :
    (pc[t] = "done" /\ create[t] \in {"done", "failed"} /\ block[t] # "none")
      => recStatus[t] \in TerminalStatus

\* C4: the step that answers a valid submission with the task id leaves the
\* initial record creation pending at its POST, the process not yet spawned
\* and no notification sent: the answer waits for none of them.
C4_SubmitDoesNotWait ==
  [][\A t \in Tasks :
       (resp[t] = "none" /\ resp'[t] = "taskId")
         => /\ create'[t] = "posting"
            /\ block'[t] = "none"
            /\ pc'[t] = "spawn"
            /\ notifyCalls'[t] = 0]_vars

\* a task id has been returned while the record creation is still pending and
\* the process has not been spawned
C4_Witness ==
  \E t \in Tasks :
    resp[t] = "taskId" /\ create[t] = "posting" /\ pc[t] = "spawn" /\ registry[t]

\* C10: a failed status-store call never diverts the engine: from the
\* completion and cleanup steps the run goes on towards the notification,
\* from the error append and the failure completion it goes on to the error
\* notification, and a task that has run to its end has attempted at least
\* one notification.
C10_StoreFailuresAbsorbed ==
  [][\A t \in Tasks :
       /\ pc[t] \in {"complete", "cleanup"} => pc'[t] \in {pc[t], "cleanup", "notify"}
       /\ pc[t] \in {"catch", "failTask"} => pc'[t] \in {pc[t], "failTask", "notifyErr"}
       /\ pc'[t] = "done" => notifyCalls'[t] >= 1]_vars

\* the record deletion failed inside completeTask (block still in the store
\* with its terminal status) and the task has nevertheless been notified
C10_Witness ==
  \E t \in Tasks :
    /\ pc[t] = "done"
    /\ recStatus[t] = "completed"
    /\ block[t] = "live"
    /\ notifyCalls[t] = 1

(***************************************************************************)
(* Properties of the notification routers (SpecRouter).                    *)
(***************************************************************************)
NotificationCallOver == nPc \in {"returned", "threw"}

\* C8: in a finished notification call the fallback channel was attempted
\* exactly when the primary channel did not succeed, an attempted fallback
\* issued exactly one delivery to the callback endpoint whatever the callback
\* URL, and no channel was attempted more than once.
C8_FallbackExactlyOnce ==
  NotificationCallOver =>
    /\ (nFallback >= 1) <=> (nOutcome # "sent")
    /\ nFallback >= 1 => nPosts = 1
    /\ nPrimary <= 1
    /\ nFallback <= 1

\* C9: a notification call in which the primary and the fallback channel both
\* failed returns normally: nothing is thrown to the caller.
C9_BothFailReturnsNormally ==
  (NotificationCallOver /\ nOutcome # "sent" /\ nFailed) => nPc = "returned"

(***************************************************************************)
(* Properties of ClaudeCodeMCPServer (SpecMcp).                            *)
(***************************************************************************)
\* C5: a submission in checkpoint mode whose checkpoint pattern does not
\* compile is answered with an error, never with "task started".
C5_InvalidPatternFailsSubmission ==
  (/\ asyncResp # "none"
   /\ toolArgs.interactionMode = "checkpoint"
   /\ toolArgs.checkpointPattern = "invalid")
    => asyncResp # "started"

\* C6: for a submission whose checkpoint pattern does not compile, no
\* claude-command message (which makes the backend spawn the assistant
\* process) is ever sent.
C6_InvalidPatternNoCommand ==
  toolArgs.checkpointPattern = "invalid" => commandsSent = 0

\* C7: a submission whose interactionMode is given and is not one of
\* autonomous, checkpoint, iterative, or whose prompt or agentId is missing
\* or not a string, is answered with invalid-parameters, and the job tracker
\* is untouched and no background work has started.
C7_InvalidParamsRejected ==
  (/\ asyncResp # "none"
   /\ \/ toolArgs.interactionMode \in {"empty", "other"}
      \/ toolArgs.prompt \in {"missing", "nonstring"}
      \/ toolArgs.agentId \in {"missing", "nonstring"})
    => /\ asyncResp = "invalidParams"
       /\ activeJobs = 0
       /\ jobStats = NoJobStats
       /\ jobPc = "idle"
       /\ wsCreated = 0
       /\ commandsSent = 0
       /\ asyncNotified = 0

\* C11: when a task has run to its end, its descriptor has been removed from
\* the task registry by the engine (taskTracker.removeTask), on the success
\* path and on the failure path.
C11_RegistryEntryRemoved ==
  \A t \in Tasks : pc[t] = "done" => ~registry[t]

\* C12: within one task the steps occur in the order completion update (with
\* its archival), old-record cleanup, notification, registry deregistration:
\* a terminal status is written only before any cleanup, notification or
\* deregistration of the task, a cleanup runs only before any notification
\* or deregistration, and a notification starts only before deregistration.
C12_StepOrder ==
  [][\A t \in Tasks :
       /\ (recStatus'[t] # recStatus[t] /\ recStatus'[t] \in TerminalStatus)
            => (cleanups[t] = 0 /\ notifyCalls[t] = 0 /\ registry[t])
       /\ cleanups'[t] > cleanups[t] => (notifyCalls[t] = 0 /\ registry[t])
       /\ notifyCalls'[t] > notifyCalls[t] => registry[t]]_vars

\* C13: while the external process of a task runs, the task's status record,
\* once created, holds in_progress: it was moved from pending to in_progress
\* before the process was invoked.
C13_InProgressBeforeProcess ==
  \A t \in Tasks :
    (pc[t] = "running" /\ block[t] = "live") => recStatus[t] = "in_progress"

\* C25: the status record of a task submitted with elevateBlock = true is
\* exempt from retention cleanup: while it is in the store, no step (no run
\* of cleanupOldTaskBlocks, of this task or of another task of the agent)
\* detaches it from the agent.
C25_ElevatedNeverDetached ==
  [][\A t \in Tasks :
       (elevated[t] /\ attached[t] /\ block[t] = "live" /\ block'[t] = "live")
         => attached'[t]]_vars

\* C30: with several tasks of the agent in flight, the cleanup triggered by
\* the completion of one task never detaches the status record of another
\* task that has not reached a terminal status.
C30_CleanupSparesRunningTasks ==
  [][\A t \in Tasks, u \in Tasks :
       (/\ u # t
        /\ cleanups'[u] > cleanups[u]
        /\ attached[t] /\ block[t] = "live" /\ recStatus[t] \notin TerminalStatus
        /\ pc[t] \in {"spawn", "running"})
         => attached'[t]]_vars

C14_TimeoutEndsFailed ==
  (execEnd = "timeout" /\ jobPc = "done")
    => (lastNotice = "failure" /\ jobStats.totalFailed >= 1)

\* C15: a task whose process exited with a non-zero code ends failed with a
\* success = false notification, and a task is reported completed with
\* success = true only when its process exited with code 0.
C15_NonZeroExitFails ==
  jobPc = "done" =>
    /\ exitCode = "nonzero" => (lastNotice = "failure" /\ jobStats.totalFailed >= 1)
    /\ lastNotice = "success" => exitCode = "zero"

\* C16: a task that was marked failed and was not submitted elevated has run
\* the cleanup of old status records, as on the success path, by the time
\* its failure notification has been sent.
C16_FailurePathCleansUp ==
  \A t \in Tasks :
    (pc[t] \in {"outer", "done"} /\ recStatus[t] = "failed" /\ ~elevated[t])
      => cleanups[t] >= 1

\* C17: when the monitor reported checkpointReached, the engine leaves the job
\* active (counted neither completed nor failed) and sends exactly one
\* notification for the run, flagged as a checkpoint.
C17_CheckpointKeepsJobActive ==
  (checkpointReached /\ jobPc \in {"notify", "done"})
    => /\ activeJobs = jobStats.totalStarted
       /\ jobStats.totalCompleted = 0
       /\ jobStats.totalFailed = 0
       /\ jobPc = "notify" => asyncNotified = resumes
       /\ jobPc = "done" => (asyncNotified = resumes + 1 /\ lastNotice = "checkpoint")

\* a run that reached its checkpoint has been notified and its job is still active
C17_Witness ==
  /\ checkpointReached
  /\ jobPc = "done"
  /\ lastNotice = "checkpoint"
  /\ activeJobs = 1
  /\ jobStats.totalCheckpoints = 1

\* C18: a submission that carries the session id of a checkpoint-paused task
\* continues that task under its task id: accepting it generates no new task
\* id and tracks no second job.
C18_ResumeKeepsTaskId ==
  resumes >= 1 => (taskIds = 1 /\ jobStats.totalStarted = 1)

C20_PausesAtCheckpoint ==
  ~ranAfterMatch

\* C29: every job tracked by trackJob is eventually removed from activeJobs
\* by completeJob and counted in totalCompleted or totalFailed, also when a
\* run reached its checkpoint: once the last run of the session has ended
\* completed or failed, after which the server takes no further step for it,
\* no job is left in activeJobs and every started job has been counted.
C29_NoJobLeftActive ==
  (jobPc = "done" /\ lastNotice \in {"success", "failure"})
    => /\ activeJobs = 0
       /\ jobStats.totalCompleted + jobStats.totalFailed = jobStats.totalStarted

(***************************************************************************)
(* Properties of the monitored execution (SpecMonitor).                    *)
(***************************************************************************)
\* s occurs in t as a subsequence (same elements, same order)
RECURSIVE IsSubsequence(_, _)
IsSubsequence(s, t) ==
  IF s = <<>> THEN TRUE
  ELSE IF t = <<>> THEN FALSE
  ELSE IF Head(s) = Head(t) THEN IsSubsequence(Tail(s), Tail(t))
  ELSE IsSubsequence(s, Tail(t))

\* C21: the result of a resolved monitored invocation contains every text
\* chunk received during the invocation (assistant text and raw output), in
\* arrival order, whether or not a checkpoint was reached and whatever
\* messages arrived after a chunk.
C21_ResultHasEveryChunk ==
  monPc = "resolved" => IsSubsequence(monReceived, monResult)

\* C22: a checkpoint notification carries canContinue = true exactly when the
\* number of iterations already performed for the session (the resumed
\* invocations before this one) is below maxIterations: over a chain of
\* resumed invocations continuation stops being offered once maxIterations
\* iterations have run.
C22_CanContinueBelowMax ==
  (jobPc = "done" /\ lastNotice = "checkpoint")
    => (canContinue <=> resumes < EffectiveMaxIterations(toolArgs))

(***************************************************************************)
(* Properties of cleanupOldTaskBlocks (SpecCleanup).                       *)
(***************************************************************************)
\* the listed blocks that are task blocks and not elevated
NonElevatedTaskBlocks == {i \in 1..Len(blocks) : blocks[i].task /\ ~blocks[i].elevated}

\* C23: a cleanupOldTaskBlocks(agent, k) call whose requests all succeed
\* detaches only non-elevated claude_task_ blocks (every elevated block and
\* every non-task block stays attached), leaves min(k, number of non-elevated
\* task blocks) of them attached, and those left are the newest by
\* created_at: none of them is older than a detached one; on an empty list it
\* detaches nothing.
C23_KeepsNewestK ==
  cleanupPc = "done" =>
    LET kept == NonElevatedTaskBlocks \ detached
        n == Cardinality(NonElevatedTaskBlocks) IN
    /\ detached \subseteq NonElevatedTaskBlocks
    /\ Cardinality(kept) = (IF keepCount < n THEN keepCount ELSE n)
    /\ \A i \in kept, j \in detached : blocks[i].created_at >= blocks[j].created_at

\* a finished call that detached an old block from a list that also holds an
\* elevated task block and kept a newer non-elevated one
C23_Witness ==
  /\ cleanupPc = "done"
  /\ detached # {}
  /\ \E i \in 1..Len(blocks) : blocks[i].task /\ blocks[i].elevated
  /\ \E i \in NonElevatedTaskBlocks \ detached, j \in detached :
       blocks[i].created_at > blocks[j].created_at

\* C24: in cleanupOldTaskBlocks a failure to detach one block does not abort
\* the batch: when the call is over, a detach was attempted for every block
\* selected for removal.
C24_BatchNotAborted ==
  cleanupPc \in {"done", "caught"} =>
    \A k \in 1..Len(toRemove) : toRemove[k] \in attempted

(***************************************************************************)
(* Properties of the TaskTracker (SpecTracker).                            *)
(***************************************************************************)
\* C26: each run of the registry sweep removes every descriptor whose age
\* exceeds the time-to-live, whether or not its task is still running, and
\* leaves every other descriptor in place unchanged; removeTask of an absent
\* id leaves the registry unchanged (removing twice equals removing once),
\* and removeTask of a present id removes that descriptor only.
C26_SweepAndRemove ==
  [][/\ trackerOp'[1] = "cleanupOldTasks"
          => /\ DOMAIN activeTasks' =
                  {id \in DOMAIN activeTasks : now - activeTasks[id] <= TaskTTL}
             /\ \A id \in DOMAIN activeTasks' : activeTasks'[id] = activeTasks[id]
     /\ trackerOp'[1] = "removeTask"
          => /\ trackerOp'[2] \notin DOMAIN activeTasks => activeTasks' = activeTasks
             /\ DOMAIN activeTasks' = DOMAIN activeTasks \ {trackerOp'[2]}
             /\ \A id \in DOMAIN activeTasks' : activeTasks'[id] = activeTasks[id]]_vars

\* a sweep has just removed the descriptor of a task that is still running
\* and left in place a descriptor whose age equals the time-to-live
C26_Witness ==
  /\ trackerOp[1] = "cleanupOldTasks"
  /\ \E id \in inFlight : id \notin DOMAIN activeTasks
  /\ \E id \in DOMAIN activeTasks : now - activeTasks[id] = TaskTTL

(***************************************************************************)
(* Properties of classifyTask (SpecClassify).                              *)
(***************************************************************************)
\* C27: the classification of a prompt has complexity_score equal to
\* min(10, max(1, floor(length/100)+1)), raised by 2 when a step indicator
\* occurs in the prompt, and always within 1..10 (the raise stops at 10); a
\* step indicator forces task_type = multi_step whatever keyword rule
\* matched; archive_priority is high exactly when complexity_score >= 7 or
\* task_type = multi_step.
C27_Classification ==
  classification.task_type # "none" =>
    LET raw == (classifyInput.length \div 100) + 1
        clamped == IF raw < 1 THEN 1 ELSE IF raw > 10 THEN 10 ELSE raw IN
    /\ classification.complexity_score \in 1..10
    /\ ~classifyInput.stepIndicator => classification.complexity_score = clamped
    /\ classifyInput.stepIndicator =>
         /\ classification.task_type = "multi_step"
         /\ classification.complexity_score =
              (IF clamped + 2 > 10 THEN 10 ELSE clamped + 2)
    /\ (classification.archive_priority = "high")
         <=> (classification.complexity_score >= 7
              \/ classification.task_type = "multi_step")

\* a long prompt with file words and a step indicator has been classified
\* multi_step with the score at its upper limit; the raise did not pass 10
C27_Witness ==
  /\ classification.task_type # "none"
  /\ classifyInput.fileWords
  /\ classifyInput.stepIndicator
  /\ classifyInput.length >= 900
  /\ classification.task_type = "multi_step"
  /\ classification.complexity_score = 10

(***************************************************************************)
(* Properties of the shared Matrix bot (SpecBot).                          *)
(***************************************************************************)
\* C31: the shared Matrix bot is used to send a job result only after its
\* initialize() has completed successfully, whatever the sequence and
\* interleaving of sendResultToLetta calls.
C31_SendOnlyInitialized ==
  ~sentUninitialized

(***************************************************************************)
(* Properties of the backend (SpecBackend).                                *)
(***************************************************************************)
\* C32: in ClaudeStatusTracker, totalJobsStarted = activeJobs.size +
\* totalJobsCompleted + totalJobsFailed + totalJobsAborted after every
\* sequence of calls, also when startJob is called with a job id that is
\* already active.
C32_StartedIsSumOfOutcomes ==
  statusTracker.totalJobsStarted =
    Cardinality({k \in SessionKeys : statusTracker.jobs[k] = "running"})
    + statusTracker.totalJobsCompleted + statusTracker.totalJobsFailed
    + statusTracker.totalJobsAborted

\* C33: when abortClaudeSession has killed the process of a session, resumed
\* or new with its id captured from the output, the job of that invocation
\* is recorded as aborted in ClaudeStatusTracker.
C33_AbortRecordsJobAborted ==
  \A i \in 1..NumInvocations :
    procState[i] = "killed" =>
      /\ statusTracker.jobs[ProcessKey(i)] = "aborted"
      /\ statusTracker.totalJobsAborted >= 1

\* C34: activeClaudeProcesses holds the process of an invocation under its
\* session key exactly while that process runs: every running process is
\* found under its session id and no entry belongs to a process that is not
\* running, also when two invocations for one session id overlap.
C34_EntryExactlyWhileRunning ==
  /\ \A i \in 1..NumInvocations :
       procState[i] = "running" => activeClaudeProcesses[FinalSessionId(i)] = i
  /\ \A k \in SessionKeys :
       activeClaudeProcesses[k] # 0 => procState[activeClaudeProcesses[k]] = "running"

C36_NeverAboveMaxSessions ==
  /\ Cardinality({s \in 1..NumSseIds : activeSessions[s] = "active"}) <= maxSessions
  /\ sseReply = <<"connect", 0, 503>> =>
       Cardinality({s \in 1..NumSseIds : activeSessions[s] = "active"}) = maxSessions

\* a connection refused at the limit
C36_Witness ==
  /\ sseReply = <<"connect", 0, 503>>
  /\ \E s \in 1..NumSseIds : activeSessions[s] = "removed"

\* C37: a run of cleanupInactiveSessions removes exactly the sessions whose
\* lastActivity is older than sessionTimeout; none of them accepted a message
\* within sessionTimeout; and a message for a removed session is answered 404
\* and refreshes nothing.
C37_SweepRemovesExactlyInactive ==
  [][ /\ sseReply'[1] = "cleanup" =>
           \A s \in 1..NumSseIds :
             /\ activeSessions[s] # "active" => activeSessions'[s] = activeSessions[s]
             /\ activeSessions[s] = "active" =>
                  /\ activeSessions'[s] = "removed" <=>
                       sseNow - lastActivity[s] > sessionTimeout
                  /\ activeSessions'[s] = "removed" =>
                       \/ acceptedAt[s] = -1
                       \/ sseNow - acceptedAt[s] > sessionTimeout
      /\ \A s \in 1..NumSseIds :
           (sseReply'[1] = "message" /\ sseReply'[2] = s /\ activeSessions[s] = "removed") =>
             /\ sseReply'[3] = 404
             /\ activeSessions'[s] = "removed"
             /\ acceptedAt'[s] = acceptedAt[s]
    ]_vars

\* a sweep has just removed one session and kept another whose last message
\* is exactly sessionTimeout old
C37_Witness ==
  /\ sseReply[1] = "cleanup"
  /\ \E s, u \in 1..NumSseIds :
       /\ activeSessions[s] = "removed" /\ acceptedAt[s] >= 0
       /\ sseNow - lastActivity[s] > sessionTimeout
       /\ activeSessions[u] = "active"
       /\ acceptedAt[u] >= 0 /\ sseNow - acceptedAt[u] = sessionTimeout

(***************************************************************************)
(* Properties of the streamable-HTTP server (SpecHttp).                    *)
(***************************************************************************)
\* C38: a POST /mcp with a session id that is not registered is answered 400
\* and creates no transport; a transport is registered only by a POST
\* without session id, under a newly generated id; after DELETE of a
\* registered id every POST or GET with it is answered 400; DELETE of an id
\* that is not registered is answered 404 and changes nothing.
C38_UnregisteredIdsRejected ==
  [][ \A id \in 0..NumHttpIds :
        LET registered == id >= 1 /\ transports[id] = "registered" IN
        /\ (httpReply'[1] = "POST" /\ httpReply'[2] = id /\ ~registered) =>
             /\ httpReply'[3] = 400
             /\ httpCreated' = httpCreated
             /\ transports' = transports
        /\ (httpReply'[1] = "GET" /\ httpReply'[2] = id /\ ~registered) =>
             httpReply'[3] = 400
        /\ (httpReply'[1] = "DELETE" /\ httpReply'[2] = id) =>
             IF registered
             THEN httpReply'[3] = 200 /\ transports'[id] = "deleted"
             ELSE httpReply'[3] = 404 /\ transports' = transports
        /\ (id >= 1 /\ ~registered /\ transports'[id] = "registered") =>
             /\ transports[id] = "unused"
             /\ httpReply' = <<"POST", -1, 200>>
    ]_vars

(***************************************************************************)
(* Properties of InMemoryEventStore (SpecEvents).                          *)
(***************************************************************************)
\* C39: replayEventsAfter(lastEventId) sends exactly the events of the
\* stream of lastEventId that were stored after it, in the order in which
\* they were stored; for an empty or unknown lastEventId it sends nothing
\* and returns the empty string.
C39_ReplaysLaterEventsOfStream ==
  LET last == replay.lastEventId IN
  IF last[1] = "none" THEN TRUE
  ELSE IF \A p \in DOMAIN events : events[p] # last
  THEN replay.sent = <<>> /\ replay.returned = ""
  ELSE LET at == CHOOSE p \in DOMAIN events : events[p] = last IN
       replay.sent = SelectSeq(SubSeq(events, at + 1, Len(events)),
                               LAMBDA e : e[1] = last[1])

====
